---- MODULE Spec2Model ----
(***************************************************************************)
(* Ingestion and consolidation pipeline of the web scraper orchestrator    *)
(* (src/base_scraper.py): ContentFilter, ScraperResult, the master-file    *)
(* load / merge / write of ScraperOrchestrator, and the latest feed.       *)
(*                                                                         *)
(* Encoding of Python values:                                              *)
(*  - a str is a sequence of one-character strings; "" is << >>;           *)
(*  - an ISO date "YYYY-MM-DD" is the one-field sequence <<day>> and an    *)
(*    ISO timestamp "YYYY-MM-DDTHH:MM:SS" the two-field sequence           *)
(*    <<day, time>>; Python's str comparison of such values is the         *)
(*    lexicographic comparison StrLess of the field sequences;             *)
(*  - a dict is a record / function; a key the dict lacks is a field out   *)
(*    of its DOMAIN, read through Get(d, key, default);                    *)
(*  - a dict's iteration order, where the code depends on it, is kept as   *)
(*    a sequence of keys next to the function.                             *)
(***************************************************************************)
EXTENDS Integers, Sequences, FiniteSets, TLC

(***************************************************************************)
(* Bounds of the model.                                                    *)
(***************************************************************************)
\* the work of a behaviour: one unit for each start of main() and one for
\* each item a collector hands over
MaxWork == 4
\* frames load_existing_data may nest before the interpreter raises
\* RecursionError (sys.getrecursionlimit() in CPython)
RecursionLimit == 3
\* largest max_items handed to generate_latest_feed
MaxLatest == 1

(***************************************************************************)
(* Python str / dict helpers.                                              *)
(***************************************************************************)
Get(d, key, default) == IF key \in DOMAIN d THEN d[key] ELSE default

Range(s) == {s[i] : i \in DOMAIN s}

\* str.lower() on the alphabet the model uses
LowerChar(c) ==
    CASE c = "A" -> "a"
      [] c = "B" -> "b"
      [] c = "C" -> "c"
      [] c = "D" -> "d"
      [] c = "E" -> "e"
      [] c = "F" -> "f"
      [] c = "I" -> "i"
      [] c = "N" -> "n"
      [] c = "O" -> "o"
      [] c = "R" -> "r"
      [] c = "S" -> "s"
      [] c = "T" -> "t"
      [] c = "U" -> "u"
      [] OTHER -> c

Lower(s) == [i \in DOMAIN s |-> LowerChar(s[i])]

\* `sub in s` for two str
Contains(sub, s) ==
    \E i \in 0..(Len(s) - Len(sub)) : \A k \in 1..Len(sub) : s[i + k] = sub[k]

\* str.startswith(prefix)
StartsWith(str, prefix) ==
    Len(str) >= Len(prefix) /\ SubSeq(str, 1, Len(prefix)) = prefix

\* str.strip(): drop leading and trailing blanks
RECURSIVE LStrip(_)
LStrip(s) == IF s # << >> /\ Head(s) = " " THEN LStrip(Tail(s)) ELSE s

RECURSIVE RStrip(_)
RStrip(s) ==
    IF s # << >> /\ s[Len(s)] = " " THEN RStrip(SubSeq(s, 1, Len(s) - 1)) ELSE s

Strip(s) == RStrip(LStrip(s))

\* Python's a < b on two str (field sequences of naturals)
RECURSIVE StrLess(_, _)
StrLess(a, b) ==
    IF b = << >> THEN FALSE
    ELSE IF a = << >> THEN TRUE
    ELSE IF Head(a) # Head(b) THEN Head(a) < Head(b)
    ELSE StrLess(Tail(a), Tail(b))

\* truthiness of a str
Truthy(s) == s # << >>

(***************************************************************************)
(* ContentFilter                                                           *)
(***************************************************************************)
\* the rule lists ContentFilter.__init__ falls back to for the keys the
\* config lacks (lines 18-30)
DefaultTitleKeywords ==
    << <<"r","s","s">>,
       <<"s","u","b","s","c","r","i","b","e">>,
       <<"s","u","b","s","c","r","i","p","t","i","o","n">>,
       <<"n","e","w","s","l","e","t","t","e","r"," ","s","i","g","n","u","p">> >>
DefaultUrlKeywords ==
    << <<"r","s","s">>, <<"f","e","e","d">>,
       <<"s","u","b","s","c","r","i","b","e">> >>
DefaultTitleExact ==
    << <<"S","u","b","s","c","r","i","b","e"," ","t","o"," ","n","e","w","s">>
       \o <<" ","r","e","l","e","a","s","e"," ","R","S","S"," ","f","e","e","d">> >>

\* the filter configuration of the run (ScraperOrchestrator.filter_config
\* as _get_default_filter_config returns it)
filter_config ==
    [ title_exclude_keywords |->
          << <<"r","s","s">>,
             <<"s","u","b","s","c","r","i","b","e">>,
             <<"s","u","b","s","c","r","i","p","t","i","o","n">>,
             <<"n","e","w","s","l","e","t","t","e","r">> >>,
      url_exclude_keywords   |-> DefaultUrlKeywords,
      title_exclude_exact    |-> DefaultTitleExact,
      category_exclude       |-> << >>,
      url_exclude_patterns   |-> << >>,
      min_title_length       |-> 3,
      case_sensitive         |-> FALSE,
      custom_filters         |-> << >> ]

\* ContentFilter.__init__: the rule lists read from the config, statistics
\* zeroed
ContentFilter(config) ==
    [ title_exclude_keywords  |-> Get(config, "title_exclude_keywords", DefaultTitleKeywords),
      url_exclude_keywords    |-> Get(config, "url_exclude_keywords", DefaultUrlKeywords),
      url_exclude_patterns    |-> Get(config, "url_exclude_patterns", << >>),
      title_exclude_exact     |-> Get(config, "title_exclude_exact", DefaultTitleExact),
      category_exclude        |-> Get(config, "category_exclude", << >>),
      min_title_length        |-> Get(config, "min_title_length", 3),
      custom_filter_functions |-> Get(config, "custom_filters", << >>),
      case_sensitive          |-> Get(config, "case_sensitive", FALSE),
      filtered_count          |-> 0,
      filter_reasons          |-> << >> ]

\* Fold that leaves the letter case alone whatever the configuration says
Fold_as_is(f, s) == s

\* the case folding should_filter applies to the item's fields and to
\* the rule values
Fold(f, s) == IF f.case_sensitive THEN s ELSE Lower(s)

\* first index of a rule list whose entry satisfies Hit, 0 if none
FirstHit(list, Hit(_)) ==
    IF \E i \in DOMAIN list : Hit(list[i])
    THEN CHOOSE i \in DOMAIN list :
            Hit(list[i]) /\ \A j \in 1..(i - 1) : ~Hit(list[j])
    ELSE 0

\* CustomHit that takes a predicate that raises for one that matches
CustomHit_raise_drops(cf, item) == cf[item] \in {"true", "raise"}

\* a custom filter is a function of the item with the outcomes
\* "true", "false" and "raise"; an outcome that raises is swallowed
CustomHit(cf, item) == cf[item] = "true"

\* str(n) of a small natural
Digit(d) ==
    CASE d = 0 -> "0" [] d = 1 -> "1" [] d = 2 -> "2" [] d = 3 -> "3" [] d = 4 -> "4"
      [] d = 5 -> "5" [] d = 6 -> "6" [] d = 7 -> "7" [] d = 8 -> "8" [] d = 9 -> "9"

RECURSIVE IntStr(_)
IntStr(n) == IF n < 10 THEN <<Digit(n)>> ELSE IntStr(n \div 10) \o <<Digit(n % 10)>>

\* the names the reasons of should_filter start with
exact_title_match == <<"e","x","a","c","t","_","t","i","t","l","e","_","m","a","t","c","h">>
title_keyword == <<"t","i","t","l","e","_","k","e","y","w","o","r","d">>
url_keyword == <<"u","r","l","_","k","e","y","w","o","r","d">>
url_pattern == <<"u","r","l","_","p","a","t","t","e","r","n">>
category_reason == <<"c","a","t","e","g","o","r","y">>
title_too_short == <<"t","i","t","l","e","_","t","o","o","_","s","h","o","r","t">>
custom_filter == <<"c","u","s","t","o","m","_","f","i","l","t","e","r">>

\* f"{kind}: '{value}'"
QuotedReason(kind, value) == kind \o <<":", " ", "'">> \o value \o <<"'">>

\* f"title_too_short: {len(title)} < {self.min_title_length}"
ShortReason(title, min_title_length) ==
    title_too_short \o <<":", " ">> \o IntStr(Len(title))
        \o <<" ", "<", " ">> \o IntStr(min_title_length)

\* should_filter with the category rule evaluated ahead of the title rules
should_filter_category_first(f, item) ==
    LET title    == Get(item, "title", << >>)
        url      == Get(item, "url", << >>)
        category == Get(item, "category", << >>)
        title_check    == Fold(f, title)
        url_check      == Fold(f, url)
        category_check == Fold(f, category)
        ExactHit(e)   == title_check = Fold(f, e)
        TitleKwHit(k) == Contains(Fold(f, k), title_check)
        UrlKwHit(k)   == Contains(Fold(f, k), url_check)
        \* re.search of a literal pattern, re.IGNORECASE unless
        \* case_sensitive, on the unfolded url
        PatternHit(p) == Contains(Fold(f, p), Fold(f, url))
        CatHit(c)     == Fold(f, c) = category_check
        CustHit(cf)   == CustomHit(cf, item)
        e == FirstHit(f.title_exclude_exact, ExactHit)
        t == FirstHit(f.title_exclude_keywords, TitleKwHit)
        u == FirstHit(f.url_exclude_keywords, UrlKwHit)
        p == FirstHit(f.url_exclude_patterns, PatternHit)
        c == FirstHit(f.category_exclude, CatHit)
        x == FirstHit(f.custom_filter_functions, CustHit)
    IN  IF c # 0 THEN <<TRUE, QuotedReason(category_reason, f.category_exclude[c])>>
        ELSE IF e # 0 THEN <<TRUE, QuotedReason(exact_title_match, f.title_exclude_exact[e])>>
        ELSE IF t # 0 THEN <<TRUE, QuotedReason(title_keyword, f.title_exclude_keywords[t])>>
        ELSE IF u # 0 THEN <<TRUE, QuotedReason(url_keyword, f.url_exclude_keywords[u])>>
        ELSE IF p # 0 THEN <<TRUE, QuotedReason(url_pattern, f.url_exclude_patterns[p])>>
        ELSE IF Len(Strip(title)) < f.min_title_length
             THEN <<TRUE, ShortReason(title, f.min_title_length)>>
        ELSE IF x # 0 THEN <<TRUE, custom_filter>>
        ELSE <<FALSE, << >> >>

\* ContentFilter.should_filter: <<should_filter, reason>>, the reason the
\* str the f-string of the rule that fired builds
should_filter(f, item) ==
    LET title    == Get(item, "title", << >>)
        url      == Get(item, "url", << >>)
        category == Get(item, "category", << >>)
        title_check    == Fold(f, title)
        url_check      == Fold(f, url)
        category_check == Fold(f, category)
        ExactHit(e)   == title_check = Fold(f, e)
        TitleKwHit(k) == Contains(Fold(f, k), title_check)
        UrlKwHit(k)   == Contains(Fold(f, k), url_check)
        \* re.search of a literal pattern, re.IGNORECASE unless
        \* case_sensitive, on the unfolded url
        PatternHit(p) == Contains(Fold(f, p), Fold(f, url))
        CatHit(c)     == Fold(f, c) = category_check
        CustHit(cf)   == CustomHit(cf, item)
        e == FirstHit(f.title_exclude_exact, ExactHit)
        t == FirstHit(f.title_exclude_keywords, TitleKwHit)
        u == FirstHit(f.url_exclude_keywords, UrlKwHit)
        p == FirstHit(f.url_exclude_patterns, PatternHit)
        c == FirstHit(f.category_exclude, CatHit)
        x == FirstHit(f.custom_filter_functions, CustHit)
    IN  IF e # 0 THEN <<TRUE, QuotedReason(exact_title_match, f.title_exclude_exact[e])>>
        ELSE IF t # 0 THEN <<TRUE, QuotedReason(title_keyword, f.title_exclude_keywords[t])>>
        ELSE IF u # 0 THEN <<TRUE, QuotedReason(url_keyword, f.url_exclude_keywords[u])>>
        ELSE IF p # 0 THEN <<TRUE, QuotedReason(url_pattern, f.url_exclude_patterns[p])>>
        ELSE IF c # 0 THEN <<TRUE, QuotedReason(category_reason, f.category_exclude[c])>>
        ELSE IF Len(Strip(title)) < f.min_title_length
             THEN <<TRUE, ShortReason(title, f.min_title_length)>>
        ELSE IF x # 0 THEN <<TRUE, custom_filter>>
        ELSE <<FALSE, << >> >>

(***************************************************************************)
(* The collectors (BaseScraperInterface) and what they can hand over.      *)
(***************************************************************************)
\* loaded_scrapers, in the order discover_scrapers inserted them
ScraperOrder == <<"X", "Y">>

Scrapers == Range(ScraperOrder)

\* BaseScraperInterface.get_scraper_info
get_scraper_info(s) ==
    [ name    |-> IF s = "X" THEN "X News Scraper" ELSE "Y News Scraper",
      website |-> IF s = "X" THEN "x.org" ELSE "y.org" ]

News == <<"N","e","w","s">>
U1 == <<"a","/","1">>
U2 == <<"a","/","2">>

\* the raw announcements a collector can return: two ordinary items, an
\* item the title rule drops that carries the url of the first, and an
\* item with neither url nor date
ItemA1 == [title |-> News, url |-> U1, date |-> <<1>>]
ItemA2 == [title |-> News, url |-> U2, date |-> <<3>>]
ItemB1 == [title |-> <<"R","S","S">>, url |-> U1, date |-> <<1>>]
ItemE0 == [title |-> News]
\* the one item of the second site
ItemY1 == [title |-> News, url |-> <<"b","/","1">>, date |-> <<2>>]

\* each collector scrapes its own site
Items(s) == IF s = "X" THEN {ItemA1, ItemA2, ItemB1, ItemE0} ELSE {ItemY1}

\* the lists scrape_announcements of s can return with n items still to
\* hand out
Listings(s, n) == UNION {[1..k -> Items(s)] : k \in 0..n}

\* one full-content dict of a collector for a url
ContentFor(url) ==
    [url |-> url, title |-> News, full_content |-> <<"b","o","d","y">>, word_count |-> 1]

(***************************************************************************)
(* ScraperResult                                                           *)
(***************************************************************************)
\* datetime.now().isoformat() at clock value t = <<day, time>>
IsoNow(t) == <<t[1], t[2]>>

\* str(uuid.uuid4()): the n-th identifier drawn
Uuid(n) == <<"uuid", n>>

\* ScraperResult.__init__
ScraperResult(scraper_name, website, existing_urls, content_filter, t, uid) ==
    [ scraper_name       |-> scraper_name,
      website            |-> website,
      scraped_at         |-> IsoNow(t),
      session_id         |-> Uuid(uid),
      announcements      |-> << >>,
      full_content       |-> << >>,
      errors             |-> << >>,
      statistics         |-> << >>,
      existing_urls      |-> existing_urls,
      new_urls           |-> {},
      skipped_duplicates |-> 0,
      content_filter     |-> content_filter,
      filtered_items     |-> 0 ]

\* ScraperResult._standardize_announcement
StandardizeAnnouncement(self, announcement, uid) ==
    [ id             |-> Get(announcement, "id", Uuid(uid)),
      title          |-> Get(announcement, "title", << >>),
      url            |-> Get(announcement, "url", << >>),
      date           |-> Get(announcement, "date", << >>),
      category       |-> Get(announcement, "category", <<"G","e","n","e","r","a","l">>),
      excerpt        |-> Get(announcement, "excerpt", << >>),
      source_website |-> self.website,
      scraped_at     |-> self.scraped_at,
      raw_data       |-> announcement ]

\* ScraperResult._standardize_content
StandardizeContent(self, content, uid) ==
    [ id             |-> Get(content, "id", Uuid(uid)),
      url            |-> Get(content, "url", << >>),
      title          |-> Get(content, "title", << >>),
      date_published |-> Get(content, "date_published", << >>),
      full_content   |-> Get(content, "full_content", << >>),
      word_count     |-> Get(content, "word_count", 0),
      images         |-> Get(content, "images", << >>),
      links          |-> Get(content, "links", << >>),
      contact_info   |-> Get(content, "contact_info", << >>),
      tags           |-> Get(content, "tags", << >>),
      comments       |-> Get(content, "comments", << >>),
      metadata       |-> Get(content, "metadata", << >>),
      source_website |-> self.website,
      scraped_at     |-> self.scraped_at,
      raw_data       |-> content ]

\* IsDuplicate looking in the urls of this run instead of the master file's
IsDuplicate_new_urls(self, url) == Truthy(url) /\ url \in self.new_urls

\* the duplicate test of add_announcement (line 188)
IsDuplicate(self, url) == Truthy(url) /\ url \in self.existing_urls

\* add_announcement with the duplicate test ahead of the content filter
add_announcement_dedup_first(self, announcement, uid) ==
    LET url == Get(announcement, "url", << >>)
        sf  == should_filter(self.content_filter, announcement)
    IN  IF IsDuplicate(self, url)
        THEN [self |-> [self EXCEPT !.skipped_duplicates = @ + 1],
              ret |-> FALSE, branch |-> "duplicate"]
        ELSE IF sf[1]
        THEN [self |-> [self EXCEPT !.filtered_items = @ + 1],
              ret |-> FALSE, branch |-> "filtered"]
        ELSE [self |-> [self EXCEPT
                          !.announcements =
                              Append(@, StandardizeAnnouncement(self, announcement, uid)),
                          !.new_urls = IF Truthy(url) THEN @ \cup {url} ELSE @],
              ret |-> TRUE, branch |-> "accepted"]

\* add_announcement that also counts a filtered item as a skipped
\* duplicate when its url is an existing one
add_announcement_count_both(self, announcement, uid) ==
    LET url == Get(announcement, "url", << >>)
        sf  == should_filter(self.content_filter, announcement)
    IN  IF sf[1]
        THEN [self |-> [self EXCEPT !.filtered_items = @ + 1,
                                    !.skipped_duplicates =
                                        IF IsDuplicate(self, url) THEN @ + 1 ELSE @],
              ret |-> FALSE, branch |-> "filtered"]
        ELSE IF IsDuplicate(self, url)
        THEN [self |-> [self EXCEPT !.skipped_duplicates = @ + 1],
              ret |-> FALSE, branch |-> "duplicate"]
        ELSE [self |-> [self EXCEPT
                          !.announcements =
                              Append(@, StandardizeAnnouncement(self, announcement, uid)),
                          !.new_urls = IF Truthy(url) THEN @ \cup {url} ELSE @],
              ret |-> TRUE, branch |-> "accepted"]

\* ScraperResult.add_announcement: the accumulator after the call, the
\* value returned, and which of the three branches was taken
add_announcement(self, announcement, uid) ==
    LET url == Get(announcement, "url", << >>)
        sf  == should_filter(self.content_filter, announcement)
    IN  IF sf[1]
        THEN [self |-> [self EXCEPT !.filtered_items = @ + 1],
              ret |-> FALSE, branch |-> "filtered"]
        ELSE IF IsDuplicate(self, url)
        THEN [self |-> [self EXCEPT !.skipped_duplicates = @ + 1],
              ret |-> FALSE, branch |-> "duplicate"]
        ELSE [self |-> [self EXCEPT
                          !.announcements =
                              Append(@, StandardizeAnnouncement(self, announcement, uid)),
                          !.new_urls = IF Truthy(url) THEN @ \cup {url} ELSE @],
              ret |-> TRUE, branch |-> "accepted"]

\* ScraperResult.add_full_content
add_full_content(self, content, uid) ==
    [self EXCEPT !.full_content = Append(@, StandardizeContent(self, content, uid))]

\* ContentFilter.get_statistics
get_statistics(f) ==
    [total_filtered |-> f.filtered_count, filter_reasons |-> f.filter_reasons]

\* ScraperResult.to_dict; **self.statistics is carried as run_statistics
to_dict(self) ==
    [ scraper_info |->
        [ scraper_name |-> self.scraper_name,
          website      |-> self.website,
          scraped_at   |-> self.scraped_at,
          session_id   |-> self.session_id ],
      statistics |->
        [ total_announcements |-> Len(self.announcements),
          total_full_content  |-> Len(self.full_content),
          total_errors        |-> Len(self.errors),
          skipped_duplicates  |-> self.skipped_duplicates,
          filtered_items      |-> self.filtered_items,
          filter_reasons      |-> get_statistics(self.content_filter).filter_reasons,
          new_urls_found      |-> Cardinality(self.new_urls),
          run_statistics      |-> self.statistics ],
      announcements |-> self.announcements,
      full_content  |-> self.full_content,
      errors        |-> self.errors ]

\* result.statistics.update(...) (lines 680-683); success_rate is kept as
\* the pair it is the quotient of
RunStatistics(self) ==
    [self EXCEPT !.statistics =
        [ date_range |-> "start to end",
          success_rate |-> IF self.announcements # << >>
                           THEN <<Len(self.full_content), Len(self.announcements)>>
                           ELSE <<0, 1>> ]]

(***************************************************************************)
(* The master file: load, existing urls, merge.                            *)
(*                                                                         *)
(* The file on disk is [state, data]: state "absent" (no file), "valid"    *)
(* (a complete JSON document, data the corpus it holds) or "partial" (the  *)
(* file was opened for writing and json.dump has not finished: what is on  *)
(* disk is a proper prefix of a document and does not parse).              *)
(***************************************************************************)
NoData == << >>

AbsentFile == [state |-> "absent", data |-> NoData]
PartialFile == [state |-> "partial", data |-> NoData]
ValidFile(d) == [state |-> "valid", data |-> d]

\* the structure load_existing_data builds when there is no master file
EmptyCorpus(t) ==
    [ scraping_history |->
        [first_scrape |-> IsoNow(t), last_updated |-> IsoNow(t), total_scrapes |-> 0],
      summary |->
        [total_announcements |-> 0, total_full_content |-> 0, total_errors |-> 0],
      scraper_keys       |-> << >>,
      results_by_scraper |-> << >> ]

\* ScraperOrchestrator.load_existing_data, `depth` frames deep: the file
\* missing gives the empty structure, a document that parses is returned,
\* and a failure to read or parse calls load_existing_data again, on the
\* same file, until the interpreter raises RecursionError
RECURSIVE load_existing_data(_, _, _)
load_existing_data(file, t, depth) ==
    IF depth > RecursionLimit THEN [raised |-> TRUE, data |-> NoData]
    ELSE IF file.state = "absent" THEN [raised |-> FALSE, data |-> EmptyCorpus(t)]
    ELSE IF file.state = "valid" THEN [raised |-> FALSE, data |-> file.data]
    ELSE load_existing_data(file, t, depth + 1)

\* UrlsOf without the `if url` test (lines 544 and 550): every url of the
\* list, the empty one included
UrlsOf_all(list) == {list[i].url : i \in DOMAIN list}

\* the urls of a list of announcements or full-content entries that are
\* not empty
UrlsOf(list) == {list[i].url : i \in {j \in DOMAIN list : Truthy(list[j].url)}}

\* ScraperOrchestrator.get_existing_urls for one scraper name
get_existing_urls(file, scraper_name, t) ==
    LET ld == load_existing_data(file, t, 0)
    IN  IF ld.raised THEN [raised |-> TRUE, urls |-> {}]
        ELSE LET rbs == ld.data.results_by_scraper
             IN  IF scraper_name \in DOMAIN rbs
                 THEN [raised |-> FALSE,
                       urls |-> UrlsOf(rbs[scraper_name].announcements)
                                  \cup UrlsOf(rbs[scraper_name].full_content)]
                 ELSE [raised |-> FALSE, urls |-> {}]

\* MergedStatistics with the totals taken from the statistics of the new
\* run instead of the merged lists
MergedStatistics_incoming_totals(merged, new_scraper_data) ==
    LET new_stats == new_scraper_data.statistics
    IN  [ total_announcements   |-> new_stats.total_announcements,
          total_full_content    |-> new_stats.total_full_content,
          total_errors          |-> new_stats.total_errors,
          last_scrape_new_items |-> new_stats.total_announcements,
          last_scrape_skipped   |-> new_stats.skipped_duplicates,
          last_scrape_filtered  |-> new_stats.filtered_items,
          filter_reasons        |-> new_stats.filter_reasons,
          last_scrape_date      |-> new_scraper_data.scraper_info.scraped_at ]

\* the statistics update_master_file gives a scraper it already holds
MergedStatistics(merged, new_scraper_data) ==
    LET new_stats == new_scraper_data.statistics
    IN  [ total_announcements   |-> Len(merged.announcements),
          total_full_content    |-> Len(merged.full_content),
          total_errors          |-> Len(merged.errors),
          last_scrape_new_items |-> new_stats.total_announcements,
          last_scrape_skipped   |-> new_stats.skipped_duplicates,
          last_scrape_filtered  |-> new_stats.filtered_items,
          filter_reasons        |-> new_stats.filter_reasons,
          last_scrape_date      |-> new_scraper_data.scraper_info.scraped_at ]

\* ExtendScraperData with the new run's lists replacing the stored ones
ExtendScraperData_overwrite(existing_scraper_data, new_scraper_data) ==
    [existing_scraper_data EXCEPT
        !.scraper_info  = new_scraper_data.scraper_info,
        !.announcements = new_scraper_data.announcements,
        !.full_content  = new_scraper_data.full_content,
        !.errors        = new_scraper_data.errors]

\* the lists of a scraper the master file already holds, after the new
\* run's lists are appended (lines 732-739)
ExtendScraperData(existing_scraper_data, new_scraper_data) ==
    [existing_scraper_data EXCEPT
        !.scraper_info  = new_scraper_data.scraper_info,
        !.announcements = @ \o new_scraper_data.announcements,
        !.full_content  = @ \o new_scraper_data.full_content,
        !.errors        = @ \o new_scraper_data.errors]

\* MergeScraper that also empties the full content of the other scrapers
MergeScraper_clear_others(existing_data, scraper_name, result) ==
    LET new_scraper_data == to_dict(result)
        rbs == existing_data.results_by_scraper
        cleared == [s \in DOMAIN rbs |-> [rbs[s] EXCEPT !.full_content = << >>]]
    IN  IF scraper_name \notin DOMAIN rbs
        THEN [existing_data EXCEPT
                !.scraper_keys = Append(@, scraper_name),
                !.results_by_scraper = (scraper_name :> new_scraper_data) @@ cleared]
        ELSE LET extended == ExtendScraperData(rbs[scraper_name], new_scraper_data)
             IN  [existing_data EXCEPT
                    !.results_by_scraper =
                        (scraper_name :>
                            [extended EXCEPT
                                !.statistics = MergedStatistics(extended, new_scraper_data)])
                        @@ cleared]

\* one iteration of the loop of update_master_file over new_results
MergeScraper(existing_data, scraper_name, result) ==
    IF scraper_name \notin DOMAIN existing_data.results_by_scraper
    THEN [existing_data EXCEPT
            !.scraper_keys = Append(@, scraper_name),
            !.results_by_scraper = (scraper_name :> to_dict(result)) @@ @]
    ELSE LET new_scraper_data == to_dict(result)
             extended == ExtendScraperData(
                             existing_data.results_by_scraper[scraper_name],
                             new_scraper_data)
         IN  [existing_data EXCEPT
                !.results_by_scraper[scraper_name] =
                    [extended EXCEPT
                        !.statistics = MergedStatistics(extended, new_scraper_data)]]

\* the loop of update_master_file over new_results.items()
RECURSIVE MergeAll(_, _, _)
MergeAll(existing_data, keys, new_results) ==
    IF keys = << >> THEN existing_data
    ELSE MergeAll(MergeScraper(existing_data, Head(keys), new_results[Head(keys)]),
                  Tail(keys), new_results)

\* sum(len(data[field]) for data in results_by_scraper.values())
RECURSIVE SumLen(_, _, _)
SumLen(rbs, keys, field) ==
    IF keys = << >> THEN 0
    ELSE Len(rbs[Head(keys)][field]) + SumLen(rbs, Tail(keys), field)

\* Summary adding this run's totals to the stored summary instead of
\* recomputing them
Summary_accumulate(existing_data, t) ==
    LET rbs == existing_data.results_by_scraper
        keys == existing_data.scraper_keys
        old == existing_data.summary
    IN  [ total_announcements |-> old.total_announcements + SumLen(rbs, keys, "announcements"),
          total_full_content  |-> old.total_full_content + SumLen(rbs, keys, "full_content"),
          total_errors        |-> old.total_errors + SumLen(rbs, keys, "errors"),
          scrapers_count      |-> Len(keys),
          last_updated        |-> IsoNow(t) ]

\* the summary update_master_file recomputes (lines 756-776)
Summary(existing_data, t) ==
    LET rbs == existing_data.results_by_scraper
        keys == existing_data.scraper_keys
    IN  [ total_announcements |-> SumLen(rbs, keys, "announcements"),
          total_full_content  |-> SumLen(rbs, keys, "full_content"),
          total_errors        |-> SumLen(rbs, keys, "errors"),
          scrapers_count      |-> Len(keys),
          last_updated        |-> IsoNow(t) ]

\* the document update_master_file builds in memory from the loaded one
MergedDocument(existing_data, keys, new_results, t) ==
    LET stamped == [existing_data EXCEPT
                      !.scraping_history.last_updated = IsoNow(t),
                      !.scraping_history.total_scrapes = @ + 1]
        merged == MergeAll(stamped, keys, new_results)
    IN  [merged EXCEPT !.summary = Summary(merged, t)]

(***************************************************************************)
(* FeedGenerator: the latest feed.                                         *)
(***************************************************************************)
ExcerptLimit == 200

\* s[:n]
Take(s, n) == SubSeq(s, 1, IF n < Len(s) THEN n ELSE Len(s))

\* FeedGenerator.create_lightweight_item for an announcement
create_lightweight_item(item) ==
    [ id             |-> Get(item, "id", << >>),
      title          |-> Get(item, "title", << >>),
      url            |-> Get(item, "url", << >>),
      date           |-> Get(item, "date", << >>),
      category       |-> Get(item, "category", <<"G","e","n","e","r","a","l">>),
      excerpt        |-> IF Truthy(Get(item, "excerpt", << >>))
                         THEN Take(item.excerpt, ExcerptLimit) ELSE << >>,
      source_website |-> Get(item, "source_website", << >>),
      scraped_at     |-> Get(item, "scraped_at", << >>) ]

\* SortKey without the fallback to scraped_at
SortKey_date_only(x) == x.date

\* the sort key of generate_latest_feed: x.get('date', '') or
\* x.get('scraped_at', '')
SortKey(x) == IF Truthy(x.date) THEN x.date ELSE x.scraped_at

\* InsertDesc for a sort in ascending order
RECURSIVE InsertDesc_ascending(_, _)
InsertDesc_ascending(sorted, x) ==
    IF sorted = << >> THEN <<x>>
    ELSE IF StrLess(SortKey(x), SortKey(Head(sorted))) THEN <<x>> \o sorted
    ELSE <<Head(sorted)>> \o InsertDesc_ascending(Tail(sorted), x)

\* list.sort(key, reverse=True) is stable: x goes before the first element
\* whose key is smaller than its own
RECURSIVE InsertDesc(_, _)
InsertDesc(sorted, x) ==
    IF sorted = << >> THEN <<x>>
    ELSE IF StrLess(SortKey(Head(sorted)), SortKey(x)) THEN <<x>> \o sorted
    ELSE <<Head(sorted)>> \o InsertDesc(Tail(sorted), x)

RECURSIVE SortDesc(_)
SortDesc(list) ==
    IF list = << >> THEN << >>
    ELSE InsertDesc(SortDesc(SubSeq(list, 1, Len(list) - 1)), list[Len(list)])

\* d[key] = value on a dict
SetItem(d, key, value) == (key :> value) @@ d

\* TagItem that writes the scraper name into the announcement itself and
\* puts the announcement into the feed
TagItem_in_place(announcement, scraper_name) ==
    [ item         |-> SetItem(announcement, "scraper", scraper_name),
      announcement |-> SetItem(announcement, "scraper", scraper_name) ]

\* lightweight_item = self.create_lightweight_item(announcement) and
\* lightweight_item['scraper'] = scraper_name (lines 313-314): the item
\* for the feed, a dict of its own, and the announcement as the two
\* statements leave it
TagItem(announcement, scraper_name) ==
    [ item         |-> SetItem(create_lightweight_item(announcement), "scraper", scraper_name),
      announcement |-> announcement ]

\* the lightweight items of one scraper, tagged with its name
ScraperItems(scraper_name, scraper_data) ==
    [i \in DOMAIN scraper_data.announcements |->
        TagItem(scraper_data.announcements[i], scraper_name).item]

\* master_data with the announcements of the scrapers as the loop of
\* generate_latest_feed leaves them (lines 311-315)
AfterLatestFeed(master_data) ==
    [master_data EXCEPT !.results_by_scraper =
        [s \in DOMAIN @ |->
            [@[s] EXCEPT !.announcements =
                [i \in DOMAIN @ |-> TagItem(@[i], s).announcement]]]]

\* all_items of generate_latest_feed before the sort
RECURSIVE AllItems(_, _)
AllItems(master_data, keys) ==
    IF keys = << >> THEN << >>
    ELSE ScraperItems(Head(keys), master_data.results_by_scraper[Head(keys)])
            \o AllItems(master_data, Tail(keys))

\* generate_latest_feed that cuts the list before it sorts it
generate_latest_feed_cut_first(master_data, max_items) ==
    LET all_items == AllItems(master_data, master_data.scraper_keys)
        latest_items == SortDesc(Take(all_items, max_items))
    IN  [ feed_type   |-> "latest",
          total_items |-> Len(latest_items),
          max_items   |-> max_items,
          items       |-> latest_items ]

\* FeedGenerator.generate_latest_feed: the feed it writes
generate_latest_feed(master_data, max_items) ==
    LET all_items == SortDesc(AllItems(master_data, master_data.scraper_keys))
        latest_items == Take(all_items, max_items)
    IN  [ feed_type   |-> "latest",
          total_items |-> Len(latest_items),
          max_items   |-> max_items,
          items       |-> latest_items ]

(***************************************************************************)
(* FeedGenerator: the feeds per scraper.                                   *)
(***************************************************************************)
\* the lightweight items of one scraper as generate_scraper_feeds collects
\* them (no 'scraper' key)
ScraperFeedItems(scraper_data) ==
    [i \in DOMAIN scraper_data.announcements |->
        create_lightweight_item(scraper_data.announcements[i])]

\* the feed generate_scraper_feeds writes for one scraper
ScraperFeed(scraper_name, scraper_data, max_items_per_scraper) ==
    LET items == SortDesc(ScraperFeedItems(scraper_data))
        latest_items == Take(items, max_items_per_scraper)
    IN  [ feed_type    |-> "scraper_specific",
          scraper_name |-> scraper_name,
          website      |-> scraper_data.scraper_info.website,
          total_items  |-> Len(latest_items),
          max_items    |-> max_items_per_scraper,
          items        |-> latest_items ]

\* master_data after generate_scraper_feeds: the loop reads the
\* announcements and writes to no dict but the items and feeds it builds
AfterScraperFeeds(master_data) == master_data

\* FeedGenerator.generate_scraper_feeds: scraper name -> the feed written
\* to latest_by_scraper/<name>.json
generate_scraper_feeds(master_data, max_items_per_scraper) ==
    [s \in DOMAIN master_data.results_by_scraper |->
        ScraperFeed(s, master_data.results_by_scraper[s], max_items_per_scraper)]

(***************************************************************************)
(* FeedGenerator: the monthly archive and the feed index.                  *)
(*                                                                         *)
(* A date 'YYYY-MM-DD' of the corpora of the archive is the sequence       *)
(* <<YYYY-MM, DD>>, its first field the number year * 100 + month: the     *)
(* order of the fields is the order of the strings.                        *)
(***************************************************************************)
\* f"{year}-{month:02d}" (line 385)
MonthStr(year, month) == <<year * 100 + month>>

\* the announcements of a list whose date starts with month_str, tagged
\* for the archive (lines 390-395)
RECURSIVE MonthItems(_, _, _)
MonthItems(scraper_name, announcements, month_str) ==
    IF announcements = << >> THEN << >>
    ELSE (IF StartsWith(Get(Head(announcements), "date", << >>), month_str)
          THEN <<TagItem(Head(announcements), scraper_name).item>> ELSE << >>)
            \o MonthItems(scraper_name, Tail(announcements), month_str)

\* all_items of generate_monthly_archive before the sort
RECURSIVE ArchiveItems(_, _, _)
ArchiveItems(master_data, keys, month_str) ==
    IF keys = << >> THEN << >>
    ELSE MonthItems(Head(keys), master_data.results_by_scraper[Head(keys)].announcements,
                    month_str)
            \o ArchiveItems(master_data, Tail(keys), month_str)

\* list.sort(key=lambda x: x.get('date', ''), reverse=True) (line 398)
RECURSIVE InsertByDate(_, _)
InsertByDate(sorted, x) ==
    IF sorted = << >> THEN <<x>>
    ELSE IF StrLess(Head(sorted).date, x.date) THEN <<x>> \o sorted
    ELSE <<Head(sorted)>> \o InsertByDate(Tail(sorted), x)

RECURSIVE SortByDate(_)
SortByDate(list) ==
    IF list = << >> THEN << >>
    ELSE InsertByDate(SortByDate(SubSeq(list, 1, Len(list) - 1)), list[Len(list)])

\* generate_monthly_archive that takes the announcements whose date is
\* month_str itself
generate_monthly_archive_exact(master_data, year, month) ==
    LET month_str == MonthStr(year, month)
        all_items == SelectSeq(AllItems(master_data, master_data.scraper_keys),
                               LAMBDA x : x.date = month_str)
    IN  [ feed_type   |-> "monthly_archive",
          year        |-> year,
          month       |-> month,
          total_items |-> Len(all_items),
          items       |-> all_items ]

\* FeedGenerator.generate_monthly_archive: the feed it writes
generate_monthly_archive(master_data, year, month) ==
    LET month_str == MonthStr(year, month)
        all_items == SortByDate(ArchiveItems(master_data, master_data.scraper_keys,
                                             month_str))
    IN  [ feed_type   |-> "monthly_archive",
          year        |-> year,
          month       |-> month,
          total_items |-> Len(all_items),
          items       |-> all_items ]

\* master_data with the announcements as the loop of
\* generate_monthly_archive leaves them
AfterMonthlyArchive(master_data, year, month) ==
    [master_data EXCEPT !.results_by_scraper =
        [s \in DOMAIN @ |->
            [@[s] EXCEPT !.announcements =
                [i \in DOMAIN @ |->
                    IF StartsWith(Get(@[i], "date", << >>), MonthStr(year, month))
                    THEN TagItem(@[i], s).announcement ELSE @[i]]]]]

\* FeedGenerator.generate_feed_index: the index it writes, given the
\* names of the files in latest_by_scraper and in archive
generate_feed_index(master_data, scraper_feeds, monthly_archives) ==
    [ feeds |->
        [ latest           |-> "latest_feed.json",
          by_scraper       |-> scraper_feeds,
          monthly_archives |-> monthly_archives ],
      statistics         |-> master_data.summary,
      available_scrapers |-> master_data.scraper_keys ]

\* master_data after generate_feed_index: it reads the summary and the
\* keys of results_by_scraper and writes to the index alone
AfterFeedIndex(master_data) == master_data

(***************************************************************************)
(* KeywordSearcher (src/keyword_search.py).                                *)
(*                                                                         *)
(* A field name is the sequence of the parts field.split('.') gives:       *)
(* 'title' is <<"title">> and 'raw_data.excerpt' <<"raw_data","excerpt">>. *)
(***************************************************************************)
\* KeywordSearcher._text_contains_keyword
text_contains_keyword(text, keyword, case_sensitive) ==
    IF ~Truthy(text) THEN FALSE
    ELSE IF ~case_sensitive THEN Contains(Lower(keyword), Lower(text))
    ELSE Contains(keyword, text)

\* the list `matched` of _text_contains_keywords: the keywords the text
\* contains, in the order of the keyword list
RECURSIVE MatchedKeywords(_, _, _)
MatchedKeywords(text, keywords, case_sensitive) ==
    IF keywords = << >> THEN << >>
    ELSE (IF text_contains_keyword(text, Head(keywords), case_sensitive)
          THEN <<Head(keywords)>> ELSE << >>)
            \o MatchedKeywords(text, Tail(keywords), case_sensitive)

\* KeywordSearcher._text_contains_keywords: <<matches, matched>>
text_contains_keywords(text, keywords, mode, case_sensitive) ==
    LET matched == MatchedKeywords(text, keywords, case_sensitive)
    IN  IF mode = "all" THEN <<Len(matched) = Len(keywords), matched>>
        ELSE <<Len(matched) > 0, matched>>

\* the value _search_in_item reads for a field: item.get(field, '') for a
\* plain name, the walk through the nested dicts for a dotted one ('' as
\* soon as a part is missing)
RECURSIVE WalkField(_, _)
WalkField(value, parts) ==
    IF parts = << >> THEN value
    ELSE IF Head(parts) \in DOMAIN value THEN WalkField(value[Head(parts)], Tail(parts))
    ELSE << >>

FieldValue(item, field) == WalkField(item, field)

\* the fields of the list in which some keyword was found
FieldsWithMatch(item, keywords, fields, case_sensitive) ==
    {f \in Range(fields) :
        text_contains_keywords(FieldValue(item, f), keywords, "any", case_sensitive)[1]}

\* KeywordSearcher._search_in_item: <<found, matches_by_field>>;
\* all_matched_keywords is a set, and mode 'all' compares its size with the
\* length of the keyword list
search_in_item(item, keywords, fields, mode, case_sensitive) ==
    LET hit == FieldsWithMatch(item, keywords, fields, case_sensitive)
        matches_by_field ==
            [f \in hit |->
                text_contains_keywords(FieldValue(item, f), keywords, "any", case_sensitive)[2]]
        all_matched_keywords == UNION {Range(matches_by_field[f]) : f \in hit}
    IN  IF mode = "all"
        THEN <<Cardinality(all_matched_keywords) = Len(keywords), matches_by_field>>
        ELSE <<Cardinality(all_matched_keywords) > 0, matches_by_field>>

\* KeywordSearcher.__init__: search_results
NewSearchResults(t) ==
    [ search_info |->
        [ searched_at     |-> IsoNow(t),
          keywords        |-> << >>,
          search_mode     |-> "any",
          case_sensitive  |-> FALSE,
          fields_searched |-> << >> ],
      scraping_history   |-> << >>,
      summary            |-> << >>,
      result_keys        |-> << >>,
      results_by_scraper |-> << >> ]

\* MarkMatch that writes _search_matches into the record of the master
\* data and appends that record
MarkMatch_in_place(record, matches_by_field) ==
    [ copy   |-> SetItem(record, "_search_matches", matches_by_field),
      record |-> SetItem(record, "_search_matches", matches_by_field) ]

\* announcement_copy = announcement.copy() and
\* announcement_copy['_search_matches'] = matches_by_field (lines 160-161
\* and 172-173): the copy that is appended, and the record of the master
\* data as the two statements leave it
MarkMatch(record, matches_by_field) ==
    [ copy   |-> SetItem(record, "_search_matches", matches_by_field),
      record |-> record ]

\* the copies of the records of a list that match, each with its
\* _search_matches (lines 153-162 and 166-174)
RECURSIVE MatchedRecords(_, _, _, _, _)
MatchedRecords(list, keywords, fields, mode, case_sensitive) ==
    IF list = << >> THEN << >>
    ELSE LET r == search_in_item(Head(list), keywords, fields, mode, case_sensitive)
         IN  (IF r[1] THEN <<MarkMatch(Head(list), r[2]).copy>> ELSE << >>)
                \o MatchedRecords(Tail(list), keywords, fields, mode, case_sensitive)

\* the records of a list of the master data as the same loop leaves them
RecordsAfterSearch(list, keywords, fields, mode, case_sensitive) ==
    [i \in DOMAIN list |->
        LET r == search_in_item(list[i], keywords, fields, mode, case_sensitive)
        IN  IF r[1] THEN MarkMatch(list[i], r[2]).record ELSE list[i]]

\* self.master_data after search_announcements
AfterSearch(master_data, keywords, fields, mode, case_sensitive) ==
    [master_data EXCEPT !.results_by_scraper =
        [s \in DOMAIN @ |->
            [@[s] EXCEPT
                !.announcements =
                    RecordsAfterSearch(@, keywords, fields, mode, case_sensitive),
                !.full_content =
                    RecordsAfterSearch(@, keywords, fields \o << <<"full_content">> >>,
                                       mode, case_sensitive)]]]

\* one iteration of the loop of search_announcements over the scrapers of
\* the master data: the entry of the scraper is written when something of
\* it matches, and left as it is otherwise
SearchScraper(search_results, scraper_name, scraper_data, keywords, fields, mode, case_sensitive) ==
    LET matched_announcements ==
            MatchedRecords(scraper_data.announcements, keywords, fields, mode,
                           case_sensitive)
        matched_full_content ==
            MatchedRecords(scraper_data.full_content, keywords,
                           fields \o << <<"full_content">> >>, mode, case_sensitive)
    IN  IF matched_announcements # << >> \/ matched_full_content # << >>
        THEN [search_results EXCEPT
                !.result_keys =
                    IF scraper_name \in DOMAIN search_results.results_by_scraper
                    THEN @ ELSE Append(@, scraper_name),
                !.results_by_scraper =
                    (scraper_name :>
                        [ scraper_info  |-> scraper_data.scraper_info,
                          announcements |-> matched_announcements,
                          full_content  |-> matched_full_content,
                          statistics    |->
                            [ matched_announcements |-> Len(matched_announcements),
                              matched_full_content  |-> Len(matched_full_content),
                              total_matches |->
                                  Len(matched_announcements) + Len(matched_full_content) ] ])
                    @@ @]
        ELSE search_results

\* the loop over master_data['results_by_scraper'].items()
RECURSIVE SearchAll(_, _, _, _, _, _, _)
SearchAll(search_results, master_data, keys, keywords, fields, mode, case_sensitive) ==
    IF keys = << >> THEN search_results
    ELSE SearchAll(
            SearchScraper(search_results, Head(keys),
                          master_data.results_by_scraper[Head(keys)],
                          keywords, fields, mode, case_sensitive),
            master_data, Tail(keys), keywords, fields, mode, case_sensitive)

\* sum(data['statistics'][field] for data in results_by_scraper.values())
RECURSIVE SumStat(_, _, _)
SumStat(rbs, keys, field) ==
    IF keys = << >> THEN 0
    ELSE rbs[Head(keys)].statistics[field] + SumStat(rbs, Tail(keys), field)

\* total_matches of search_announcements: what this call matched
RECURSIVE TotalMatches(_, _, _, _, _, _)
TotalMatches(master_data, keys, keywords, fields, mode, case_sensitive) ==
    IF keys = << >> THEN 0
    ELSE LET scraper_data == master_data.results_by_scraper[Head(keys)]
         IN  Len(MatchedRecords(scraper_data.announcements, keywords, fields, mode,
                                case_sensitive))
             + Len(MatchedRecords(scraper_data.full_content, keywords,
                                  fields \o << <<"full_content">> >>, mode,
                                  case_sensitive))
             + TotalMatches(master_data, Tail(keys), keywords, fields, mode,
                            case_sensitive)

\* KeywordSearcher.search_announcements on loaded master data:
\* self.search_results after the call (the value it returns)
search_announcements(search_results, master_data, keywords, fields, mode, case_sensitive, t) ==
    LET info == [search_results EXCEPT
                    !.search_info =
                        [ searched_at     |-> IsoNow(t),
                          keywords        |-> keywords,
                          search_mode     |-> mode,
                          case_sensitive  |-> case_sensitive,
                          fields_searched |-> fields ],
                    !.scraping_history = master_data.scraping_history]
        searched == SearchAll(info, master_data, master_data.scraper_keys, keywords,
                              fields, mode, case_sensitive)
        rbs == searched.results_by_scraper
        keys == searched.result_keys
    IN  [searched EXCEPT
            !.summary =
                [ total_scrapers_with_matches |-> Len(keys),
                  total_matched_announcements |-> SumStat(rbs, keys, "matched_announcements"),
                  total_matched_full_content  |-> SumStat(rbs, keys, "matched_full_content"),
                  total_matches |->
                      TotalMatches(master_data, master_data.scraper_keys, keywords, fields,
                                   mode, case_sensitive) ]]

\* RelevanceScore that counts the fields with a match
RelevanceScore_fields(matches, S) == Cardinality(S)

\* sum(len(kws) for kws in matches.values())
RECURSIVE RelevanceScore(_, _)
RelevanceScore(matches, S) ==
    IF S = {} THEN 0
    ELSE LET f == CHOOSE x \in S : TRUE
         IN  Len(matches[f]) + RelevanceScore(matches, S \ {f})

\* KeywordAnnouncementItem that passes the raw payload on
KeywordAnnouncementItem_raw(scraper_name, announcement) ==
    [ id       |-> Get(announcement, "id", << >>),
      title    |-> Get(announcement, "title", << >>),
      date     |-> Get(announcement, "date", << >>),
      excerpt  |-> Get(announcement, "excerpt", << >>),
      scraper  |-> scraper_name,
      scraped_at |-> Get(announcement, "scraped_at", << >>),
      matched_keywords |-> Get(announcement, "_search_matches", << >>),
      relevance_score  |-> 0,
      raw_data |-> Get(announcement, "raw_data", << >>) ]

\* the feed item generate_keyword_feed builds of a matched announcement
KeywordAnnouncementItem(scraper_name, announcement) ==
    LET matches == Get(announcement, "_search_matches", << >>)
    IN  [ id               |-> Get(announcement, "id", << >>),
          title            |-> Get(announcement, "title", << >>),
          url              |-> Get(announcement, "url", << >>),
          date             |-> Get(announcement, "date", << >>),
          category         |-> Get(announcement, "category", <<"G","e","n","e","r","a","l">>),
          excerpt          |-> IF Truthy(Get(announcement, "excerpt", << >>))
                               THEN Take(announcement.excerpt, ExcerptLimit) ELSE << >>,
          source_website   |-> Get(announcement, "source_website", << >>),
          scraper          |-> scraper_name,
          scraped_at       |-> Get(announcement, "scraped_at", << >>),
          matched_keywords |-> matches,
          relevance_score  |-> RelevanceScore(matches, DOMAIN matches) ]

\* the feed item it builds of a matched full-content record
KeywordContentItem(scraper_name, content) ==
    LET matches == Get(content, "_search_matches", << >>)
    IN  [ id               |-> Get(content, "id", << >>),
          title            |-> Get(content, "title", << >>),
          url              |-> Get(content, "url", << >>),
          date             |-> Get(content, "date_published", << >>),
          source_website   |-> Get(content, "source_website", << >>),
          scraper          |-> scraper_name,
          scraped_at       |-> Get(content, "scraped_at", << >>),
          word_count       |-> Get(content, "word_count", 0),
          matched_keywords |-> matches,
          relevance_score  |-> RelevanceScore(matches, DOMAIN matches),
          has_full_content |-> TRUE ]

\* all_items of generate_keyword_feed before the sort
RECURSIVE KeywordItems(_, _)
KeywordItems(search_results, keys) ==
    IF keys = << >> THEN << >>
    ELSE LET scraper_data == search_results.results_by_scraper[Head(keys)]
         IN  [i \in DOMAIN scraper_data.announcements |->
                 KeywordAnnouncementItem(Head(keys), scraper_data.announcements[i])]
             \o [i \in DOMAIN scraper_data.full_content |->
                 KeywordContentItem(Head(keys), scraper_data.full_content[i])]
             \o KeywordItems(search_results, Tail(keys))

\* (relevance_score, date) < (relevance_score, date) of Python tuples
RelevanceLess(x, y) ==
    \/ x.relevance_score < y.relevance_score
    \/ x.relevance_score = y.relevance_score /\ StrLess(x.date, y.date)

\* list.sort(key=(relevance_score, date), reverse=True)
RECURSIVE InsertByRelevance(_, _)
InsertByRelevance(sorted, x) ==
    IF sorted = << >> THEN <<x>>
    ELSE IF RelevanceLess(Head(sorted), x) THEN <<x>> \o sorted
    ELSE <<Head(sorted)>> \o InsertByRelevance(Tail(sorted), x)

RECURSIVE SortByRelevance(_)
SortByRelevance(list) ==
    IF list = << >> THEN << >>
    ELSE InsertByRelevance(SortByRelevance(SubSeq(list, 1, Len(list) - 1)), list[Len(list)])

\* KeywordSearcher.generate_keyword_feed: the feed it writes
generate_keyword_feed(search_results, max_items, sort_by) ==
    LET all_items == KeywordItems(search_results, search_results.result_keys)
        sorted == IF sort_by = "relevance" THEN SortByRelevance(all_items)
                  ELSE SortDesc(all_items)
        feed_items == Take(sorted, max_items)
    IN  [ feed_type   |-> "keyword_search",
          search_info |-> search_results.search_info,
          total_items |-> Len(feed_items),
          max_items   |-> max_items,
          sort_by     |-> sort_by,
          items       |-> feed_items ]

(***************************************************************************)
(* State.                                                                  *)
(***************************************************************************)
VARIABLES
    masterFile,         \* the master file on disk
    latestFeedFile,     \* feeds/latest_feed.json on disk
    pc,                 \* where main() is; "idle" when no process runs
    scraper_arg,        \* args.scraper, "all" when it is not given
    scrape_full,        \* scrape_full_content = not args.no_full_content
    max_latest,         \* args.max_latest
    todo,               \* scrapers main() still has to run
    result,             \* the ScraperResult of the running run_scraper
    pending,            \* announcements the loop of run_scraper has not reached
    new_announcements,  \* new_announcements of run_scraper
    results,            \* results of main(): scraper name -> ScraperResult
    results_keys,       \* its insertion order
    to_write,           \* existing_data of update_master_file, being written
    clock,              \* <<day, time>> of datetime.now()
    uuid_next,          \* uuid4 values drawn by this process
    fetched,            \* items handed over by the collectors so far
    invocations,        \* processes started so far
    \* history variables: what the actions did, for the properties
    last_add,           \* the last add_announcement call
    last_load,          \* the last load_existing_data call
    returned,           \* scraper name -> what its collector returned in this process
    merged_returned,    \* scraper name -> the same, for its last merged run
    collector_raised,   \* scrapers whose listing or expansion raised in this process
    pre_merge,          \* the document update_master_file loaded
    \* a ScraperResult driven directly, outside main()
    acc,                \* the ScraperResult
    acc_call,           \* the last add_announcement call on it
    \* the views of the corpus: the feeds per scraper and the KeywordSearcher
    scraperFeedFiles,   \* feeds/latest_by_scraper/<name>.json on disk
    master_data,        \* KeywordSearcher.master_data
    search_results,     \* KeywordSearcher.search_results
    keywordFeedFile,    \* feeds/keywords_latest_feed.json on disk
    view_calls,         \* calls made on the FeedGenerator and the KeywordSearcher
    feed_master_data,   \* the master_data handed to the FeedGenerator, as its last call left it
    archiveFiles,       \* feeds/archive/<year>-<month>.json on disk
    indexFile           \* feeds/index.json on disk

vars == <<masterFile, latestFeedFile, pc, scraper_arg, scrape_full, max_latest, todo, result,
          pending, new_announcements, results, results_keys, to_write, clock,
          uuid_next, fetched, invocations, last_add, last_load, returned,
          merged_returned, collector_raised, pre_merge, acc, acc_call,
          scraperFeedFiles, master_data, search_results, keywordFeedFile, view_calls,
          feed_master_data, archiveFiles, indexFile>>

filter_vars == <<acc, acc_call>>
view_vars == <<scraperFeedFiles, master_data, search_results, keywordFeedFile, view_calls, feed_master_data, archiveFiles, indexFile>>

\* the state outside main(): untouched by a run of main()
bench == <<filter_vars, view_vars>>

disk == <<masterFile, latestFeedFile>>
args == <<scraper_arg, scrape_full, max_latest>>
run_locals == <<result, pending, new_announcements>>
history == <<last_add, last_load, returned, merged_returned, collector_raised, pre_merge>>

\* the values of --scraper the deployments of the model use: none, or the
\* first scraper
ScraperArgs == {"all", ScraperOrder[1]}

NoResult == << >>
NoAdd == [branch |-> "none", item |-> << >>, was_existing |-> FALSE, was_new |-> FALSE,
          ret |-> FALSE]
NoLoad == [file_state |-> "none", raised |-> FALSE, empty_shape |-> FALSE]
NoFeed == [feed_type |-> "none", total_items |-> 0, max_items |-> 0, items |-> << >>]
NoIndex == << >>

\* no feed per scraper written, no KeywordSearcher built
ViewsIdle ==
    /\ scraperFeedFiles = << >>
    /\ master_data = NoData
    /\ search_results = NoData
    /\ keywordFeedFile = NoFeed
    /\ view_calls = 0
    /\ feed_master_data = NoData
    /\ archiveFiles = << >>
    /\ indexFile = NoIndex

\* a uuid of this process: processes never draw the same one
FreshUuid == <<invocations, uuid_next>>

\* whether a loaded document is the empty structure
IsEmptyShape(d) ==
    /\ d.scraping_history.total_scrapes = 0
    /\ d.summary.total_announcements = 0
    /\ d.summary.total_full_content = 0
    /\ d.summary.total_errors = 0
    /\ DOMAIN d.results_by_scraper = {}

LoadRecord(file, ld) ==
    [file_state |-> file.state, raised |-> ld.raised,
     empty_shape |-> IF ld.raised THEN FALSE ELSE IsEmptyShape(ld.data)]

\* a master file an earlier deployment left behind: main() ran once for
\* all scrapers, the first site listed ItemA1 and the second ItemY1, and
\* the full content of both was scraped
SeedResult(s, item) ==
    LET r0 == ScraperResult(get_scraper_info(s).name, get_scraper_info(s).website,
                            {}, ContentFilter(filter_config), <<1, 1>>, <<0, s, 0>>)
        r1 == add_announcement(r0, item, <<0, s, 1>>).self
        r2 == add_full_content(r1, ContentFor(item.url), <<0, s, 2>>)
    IN  RunStatistics(r2)

SeedDocument ==
    MergedDocument(EmptyCorpus(<<1, 2>>), ScraperOrder,
                   [s \in Scrapers |-> SeedResult(s, IF s = "X" THEN ItemA1 ELSE ItemY1)],
                   <<1, 2>>)

SeedReturned ==
    [s \in Scrapers |->
        [raised |-> FALSE, list |-> <<IF s = "X" THEN ItemA1 ELSE ItemY1>>]]

Init ==
    /\ \/ masterFile = AbsentFile /\ merged_returned = << >>
       \/ masterFile = ValidFile(SeedDocument) /\ merged_returned = SeedReturned
    /\ latestFeedFile = NoFeed
    /\ pc = "idle"
    /\ scraper_arg \in ScraperArgs
    /\ scrape_full \in BOOLEAN
    /\ max_latest \in 1..MaxLatest
    /\ todo = << >>
    /\ result = NoResult
    /\ pending = << >>
    /\ new_announcements = << >>
    /\ results = << >>
    /\ results_keys = << >>
    /\ to_write = NoData
    /\ clock = <<1, 0>>
    /\ uuid_next = 0
    /\ fetched = 0
    /\ invocations = 0
    /\ last_add = NoAdd
    /\ last_load = NoLoad
    /\ returned = << >>
    /\ collector_raised = {}
    /\ pre_merge = NoData
    /\ acc = NoResult
    /\ acc_call = NoAdd
    /\ ViewsIdle

\* the process is gone: its memory with it
ProcessEnds ==
    /\ pc' = "idle"
    /\ todo' = << >>
    /\ result' = NoResult
    /\ pending' = << >>
    /\ new_announcements' = << >>
    /\ results' = << >>
    /\ results_keys' = << >>
    /\ to_write' = NoData
    /\ uuid_next' = 0
    /\ returned' = << >>
    /\ collector_raised' = {}
    /\ pre_merge' = NoData
    /\ last_add' = NoAdd

(***************************************************************************)
(* main() up to the runs.                                                  *)
(***************************************************************************)
\* main(): a process starts with the command line of the deployment,
\* discovers the scrapers and is about to run the one --scraper names, or
\* all of them
Main ==
    /\ pc = "idle"
    /\ invocations + fetched < MaxWork
    /\ invocations' = invocations + 1
    /\ clock' = <<clock[1] + 1, 0>>
    /\ todo' = IF scraper_arg = "all" THEN ScraperOrder ELSE <<scraper_arg>>
    /\ pc' = "run"
    /\ UNCHANGED <<disk, args, bench, run_locals, results, results_keys, to_write, uuid_next,
                   fetched, history>>

\* RecordError that swallows the exception without recording it
RecordError_dropped(self, scraper_name) == self

\* RecordError that throws away what the run had accepted so far
RecordError_discard(self, scraper_name) ==
    [self EXCEPT !.announcements = << >>,
                 !.new_urls = {},
                 !.errors = Append(@, <<"Error running scraper", scraper_name>>)]

\* the except block of run_scraper (lines 685-688)
RecordError(self, scraper_name) ==
    [self EXCEPT !.errors = Append(@, <<"Error running scraper", scraper_name>>)]

\* `self.results[scraper_name] = result; return result` and the caller's
\* `results[scraper_name] = result`
StoreResult(r) ==
    LET s == Head(todo)
    IN  /\ results' = (s :> r) @@ results
        /\ results_keys' = Append(results_keys, s)
        /\ todo' = Tail(todo)
        /\ result' = NoResult
        /\ pending' = << >>
        /\ new_announcements' = << >>
        /\ pc' = "run"

\* run_scraper up to the ScraperResult; get_existing_urls could not load
\* the master file. run_all_scrapers catches the exception and goes on to
\* the next scraper; with --scraper it ends the process
RunScraperLoadFails ==
    /\ pc = "run"
    /\ todo # << >>
    /\ LET eu == get_existing_urls(masterFile, Head(todo), clock)
       IN  eu.raised
    /\ IF scraper_arg = "all"
       THEN /\ todo' = Tail(todo)
            /\ last_load' = LoadRecord(masterFile,
                                       load_existing_data(masterFile, clock, 0))
            /\ UNCHANGED <<pc, run_locals, results, results_keys, to_write, uuid_next,
                           returned, collector_raised, pre_merge, last_add>>
       ELSE /\ ProcessEnds
            /\ last_load' = LoadRecord(masterFile,
                                       load_existing_data(masterFile, clock, 0))
    /\ UNCHANGED <<disk, args, bench, clock, fetched, invocations,
                   merged_returned>>

\* the ScraperResult run_scraper creates (lines 627-642)
NewResult(s, existing_urls) ==
    ScraperResult(get_scraper_info(s).name, get_scraper_info(s).website,
                  existing_urls, ContentFilter(filter_config),
                  <<clock[1], clock[2] + 1>>, FreshUuid)

\* run_scraper: scrape_announcements raises
RunScraperListingRaises ==
    /\ pc = "run"
    /\ todo # << >>
    /\ LET s == Head(todo)
           eu == get_existing_urls(masterFile, s, clock)
       IN  /\ ~eu.raised
           /\ last_load' = LoadRecord(masterFile, load_existing_data(masterFile, clock, 0))
           /\ StoreResult(RecordError(NewResult(s, eu.urls), s))
           /\ returned' = (s :> [raised |-> TRUE, list |-> << >>]) @@ returned
           /\ collector_raised' = collector_raised \cup {s}
    /\ clock' = <<clock[1], clock[2] + 1>>
    /\ uuid_next' = uuid_next + 1
    /\ UNCHANGED <<disk, args, bench, to_write, fetched, invocations,
                   last_add, merged_returned, pre_merge>>

\* run_scraper: scrape_announcements returns a list
RunScraperListing(list) ==
    /\ list \in Listings(Head(todo), MaxWork - invocations - fetched)
    /\ LET s == Head(todo)
           eu == get_existing_urls(masterFile, s, clock)
       IN  /\ ~eu.raised
           /\ last_load' = LoadRecord(masterFile, load_existing_data(masterFile, clock, 0))
           /\ result' = NewResult(s, eu.urls)
           /\ returned' = (s :> [raised |-> FALSE, list |-> list]) @@ returned
    /\ pending' = list
    /\ new_announcements' = << >>
    /\ fetched' = fetched + Len(list)
    /\ clock' = <<clock[1], clock[2] + 1>>
    /\ uuid_next' = uuid_next + 1
    /\ pc' = "adding"
    /\ UNCHANGED <<disk, args, bench, todo, results, results_keys,
                   to_write, invocations, last_add, merged_returned,
                   collector_raised, pre_merge>>

\* one iteration of `for announcement in announcements` (lines 650-652)
AddAnnouncement ==
    /\ pc = "adding"
    /\ pending # << >>
    /\ LET announcement == Head(pending)
           url == Get(announcement, "url", << >>)
           added == add_announcement(result, announcement, FreshUuid)
       IN  /\ result' = added.self
           /\ new_announcements' = IF added.ret THEN Append(new_announcements, announcement)
                                   ELSE new_announcements
           /\ last_add' = [branch |-> added.branch, item |-> announcement,
                           was_existing |-> Truthy(url) /\ url \in result.existing_urls,
                           was_new |-> Truthy(url) /\ url \in result.new_urls,
                           ret |-> added.ret]
    /\ pending' = Tail(pending)
    /\ uuid_next' = uuid_next + 1
    /\ UNCHANGED <<disk, pc, args, bench, todo, results, results_keys,
                   to_write, clock, fetched, invocations, last_load, returned,
                   merged_returned, collector_raised, pre_merge>>

\* new_urls of step 2 (line 669)
RECURSIVE NewUrls(_)
NewUrls(anns) ==
    IF anns = << >> THEN << >>
    ELSE (IF Truthy(Get(Head(anns), "url", << >>)) THEN <<Head(anns).url>> ELSE << >>)
            \o NewUrls(Tail(anns))

\* CallsFullContent that does not look at scrape_full_content
CallsFullContent_always ==
    new_announcements # << >> /\ NewUrls(new_announcements) # << >>

\* whether step 2 calls scrape_full_content (lines 667-671)
CallsFullContent ==
    scrape_full /\ new_announcements # << >> /\ NewUrls(new_announcements) # << >>

\* the loop over full_content_data (lines 674-675)
RECURSIVE AddContents(_, _, _)
AddContents(self, contents, n) ==
    IF contents = << >> THEN self
    ELSE AddContents(add_full_content(self, Head(contents), <<invocations, n>>),
                     Tail(contents), n + 1)

\* what scrape_full_content can return for the urls: an entry for each,
\* or for none (every fetch failed inside the collector)
ContentLists(urls) == { [i \in DOMAIN urls |-> ContentFor(urls[i])], << >> }

\* step 2 of run_scraper with a call of scrape_full_content that returns
RunScraperFullContent(contents) ==
    /\ pc = "adding"
    /\ pending = << >>
    /\ CallsFullContent
    /\ contents \in ContentLists(NewUrls(new_announcements))
    /\ StoreResult(RunStatistics(AddContents(result, contents, uuid_next)))
    /\ uuid_next' = uuid_next + Len(contents)
    /\ UNCHANGED <<disk, args, bench, to_write, clock, fetched,
                   invocations, history>>

\* step 2 of run_scraper with a call of scrape_full_content that raises
RunScraperFullContentRaises ==
    /\ pc = "adding"
    /\ pending = << >>
    /\ CallsFullContent
    /\ StoreResult(RecordError(result, Head(todo)))
    /\ collector_raised' = collector_raised \cup {Head(todo)}
    /\ UNCHANGED <<disk, args, bench, to_write, clock, uuid_next, fetched,
                   invocations, last_add, last_load, returned, merged_returned,
                   pre_merge>>

\* run_scraper when step 2 has nothing to expand
RunScraperNoFullContent ==
    /\ pc = "adding"
    /\ pending = << >>
    /\ ~CallsFullContent
    /\ StoreResult(RunStatistics(result))
    /\ UNCHANGED <<disk, args, bench, to_write, clock, uuid_next, fetched,
                   invocations, history>>

(***************************************************************************)
(* main() after the runs: update_master_file, generate_feeds, the report.  *)
(***************************************************************************)
\* run_all_scrapers (or the single run_scraper) has returned
RunsDone ==
    /\ pc = "run"
    /\ todo = << >>
    /\ pc' = "update"
    /\ UNCHANGED <<disk, args, bench, todo, run_locals, results,
                   results_keys, to_write, clock, uuid_next, fetched, invocations,
                   history>>

\* update_master_file up to open(master_file_path, 'w'): the document is
\* loaded and merged in memory, and opening the file for writing truncates
\* it. A load that raises ends the process (main() catches nothing)
UpdateMasterFile ==
    /\ pc = "update"
    /\ LET ld == load_existing_data(masterFile, clock, 0)
       IN  IF ld.raised
           THEN /\ ProcessEnds
                /\ last_load' = LoadRecord(masterFile, ld)
                /\ UNCHANGED masterFile
           ELSE /\ last_load' = LoadRecord(masterFile, ld)
                /\ to_write' = MergedDocument(ld.data, results_keys, results, clock)
                /\ pre_merge' = ld.data
                /\ masterFile' = PartialFile
                /\ pc' = "writing"
                /\ UNCHANGED <<todo, run_locals, results, results_keys, uuid_next,
                               returned, collector_raised, last_add>>
    /\ UNCHANGED <<latestFeedFile, args, bench, clock, fetched,
                   invocations, merged_returned>>

\* json.dump(existing_data, f) runs to its end and the file is closed
WriteMasterFile ==
    /\ pc = "writing"
    /\ masterFile' = ValidFile(to_write)
    /\ merged_returned' =
          [s \in Range(results_keys) |-> returned[s]] @@ merged_returned
    /\ pc' = "feeds"
    /\ UNCHANGED <<latestFeedFile, args, bench, todo, run_locals, results,
                   results_keys, to_write, clock, uuid_next, fetched, invocations,
                   last_add, last_load, returned, collector_raised, pre_merge>>

\* generate_feeds: the master file is loaded again and the latest feed
\* written, with --max-latest items at most
GenerateFeeds ==
    /\ pc = "feeds"
    /\ LET ld == load_existing_data(masterFile, clock, 0)
       IN  IF ld.raised
           THEN /\ ProcessEnds
                /\ last_load' = LoadRecord(masterFile, ld)
                /\ UNCHANGED latestFeedFile
           ELSE /\ last_load' = LoadRecord(masterFile, ld)
                /\ latestFeedFile' = generate_latest_feed(ld.data, max_latest)
                /\ pc' = "report"
                /\ UNCHANGED <<todo, run_locals, results, results_keys, to_write,
                               uuid_next, returned, collector_raised, pre_merge,
                               last_add>>
    /\ UNCHANGED <<masterFile, args, bench, clock, fetched, invocations,
                   merged_returned>>

\* the report is printed and main() returns
Exit ==
    /\ pc = "report"
    /\ ProcessEnds
    /\ last_load' = NoLoad
    /\ UNCHANGED <<disk, args, bench, clock, fetched, invocations,
                   merged_returned>>

\* the process is interrupted (killed, power loss) while json.dump writes
\* the master file: nothing it holds in memory survives, the files stay as
\* they are. (An interruption before the file is opened leaves the disk as
\* if the process had never started.)
Interrupt ==
    /\ pc = "writing"
    /\ ProcessEnds
    /\ last_load' = NoLoad
    /\ UNCHANGED <<disk, args, bench, clock, fetched, invocations,
                   merged_returned>>

Next ==
    \/ Main
    \/ RunScraperLoadFails
    \/ RunScraperListingRaises
    \/ /\ pc = "run"
       /\ todo # << >>
       /\ \E list \in Listings(Head(todo), MaxWork - invocations - fetched) : RunScraperListing(list)
    \/ AddAnnouncement
    \/ \E contents \in ContentLists(NewUrls(new_announcements)) :
          RunScraperFullContent(contents)
    \/ RunScraperFullContentRaises
    \/ RunScraperNoFullContent
    \/ RunsDone
    \/ UpdateMasterFile
    \/ WriteMasterFile
    \/ GenerateFeeds
    \/ Exit
    \/ Interrupt

Spec == Init /\ [][Next]_vars

(***************************************************************************)
(* ContentFilter and ScraperResult driven directly (FilterSpec): a         *)
(* ScraperResult is built around a filter with one of the configurations   *)
(* below and items are added to it; no process of main() runs.             *)
(***************************************************************************)
\* add_announcement calls of one behaviour
MaxAdds == 1

SubscribeToRss == <<"S","u","b","s","c","r","i","b","e"," ","t","o"," ","R","S","S">>
SubscribeUpper == <<"S","U","B","S","C","R","I","B","E"," ","T","O"," ","R","S","S">>
Ab == <<"A","b">>
Ad == <<"A","d">>
UFeed == <<"a","/","f","e","e","d">>

\* the items handed to add_announcement
FilterItems ==
    LET core == [title : {SubscribeToRss, SubscribeUpper, News, Ab}]
        urls == {[url |-> U1], [url |-> UFeed]}
        cats == {[category |-> Ad]}
        with_url == core \cup {i @@ u : i \in core, u \in urls}
    IN  with_url \cup {i @@ c : i \in with_url, c \in cats}

\* custom filters: `lambda item: True`, one that raises on every item, and
\* `lambda item: bool(item['category'])`, which raises KeyError on an item
\* without a category
AlwaysTrue == [i \in FilterItems |-> "true"]
AlwaysRaises == [i \in FilterItems |-> "raise"]
NeedsCategory ==
    [i \in FilterItems |-> IF "category" \in DOMAIN i THEN "true" ELSE "raise"]

CustomLists == {<< >>, <<AlwaysRaises>>, <<AlwaysRaises, AlwaysTrue>>, <<NeedsCategory>>}

\* the configuration of the spec's scenario: the one key, the rest left to
\* the defaults of ContentFilter.__init__
ScenarioConfig == [title_exclude_exact |-> <<SubscribeToRss>>]

\* the configurations: every rule list empty or with one value
FilterConfigs ==
    [ title_exclude_exact    : {<< >>, <<SubscribeToRss>>},
      title_exclude_keywords : {<< >>, << <<"r","s","s">> >>},
      url_exclude_keywords   : {<< >>, << <<"f","e","e","d">> >>},
      url_exclude_patterns   : {<< >>, << <<"a","/">> >>},
      category_exclude       : {<< >>, <<Ad>>},
      min_title_length       : {3, 20},
      case_sensitive         : BOOLEAN,
      custom_filters         : CustomLists ]
        \cup {ScenarioConfig}

NoCall == [item |-> << >>, out |-> <<FALSE, << >> >>, branch |-> "none",
           skipped_before |-> 0, calls |-> 0]

\* the variables of main() and its files, at rest
PipelineIdle ==
    /\ masterFile = AbsentFile
    /\ latestFeedFile = NoFeed
    /\ pc = "idle"
    /\ scraper_arg = "all"
    /\ scrape_full = TRUE
    /\ max_latest = 1
    /\ todo = << >>
    /\ result = NoResult
    /\ pending = << >>
    /\ new_announcements = << >>
    /\ results = << >>
    /\ results_keys = << >>
    /\ to_write = NoData
    /\ clock = <<1, 0>>
    /\ uuid_next = 0
    /\ fetched = 0
    /\ invocations = 0
    /\ last_add = NoAdd
    /\ last_load = NoLoad
    /\ returned = << >>
    /\ merged_returned = << >>
    /\ collector_raised = {}
    /\ pre_merge = NoData

\* ScraperResult(name, website, existing_urls, ContentFilter(config)) for
\* a source whose record holds the url a/1
FilterInit ==
    /\ PipelineIdle
    /\ \E config \in FilterConfigs :
          acc = ScraperResult("T", "t.org", {U1}, ContentFilter(config), <<1, 1>>, 0)
    /\ acc_call = NoCall
    /\ ViewsIdle

\* result.add_announcement(item); the outcome should_filter gave inside it
\* is kept next to the branch taken
FilterAdd(item) ==
    /\ acc_call.calls < MaxAdds
    /\ LET added == add_announcement(acc, item, <<0, acc_call.calls + 1>>)
       IN  /\ acc' = added.self
           /\ acc_call' = [item |-> item,
                           out |-> should_filter(acc.content_filter, item),
                           branch |-> added.branch,
                           skipped_before |-> acc.skipped_duplicates,
                           calls |-> acc_call.calls + 1]
    /\ UNCHANGED <<disk, args, todo, run_locals, results, results_keys, to_write, clock,
                   uuid_next, fetched, invocations, history, pc, view_vars>>

FilterNext == \E item \in FilterItems : FilterAdd(item)

FilterSpec == FilterInit /\ [][FilterNext]_vars

(***************************************************************************)
(* The views of a corpus (ViewSpec): a master file some runs of main()     *)
(* left behind, the feeds FeedGenerator derives from it, and one           *)
(* KeywordSearcher that loads it, searches it and writes its feed.         *)
(***************************************************************************)
\* calls on the FeedGenerator and the KeywordSearcher in one behaviour
MaxViewCalls == 2
\* largest max_items handed to a feed
MaxFeedItems == 2

Fda == <<"f","d","a">>
FdaUpper == <<"F","D","A">>
Approval == <<"a","p","p","r","o","v","a","l">>
Body == <<"b","o","d","y">>

\* what the collectors of the two sites listed: for the first, titles with
\* the keyword in upper case, one with the other keyword in its excerpt,
\* and an item with neither url nor date; for the second, its ordinary
\* item and an undated one
ViewA1 == [title |-> FdaUpper, url |-> U1, date |-> <<1>>]
ViewA2 == [title |-> FdaUpper, excerpt |-> Approval, url |-> U2, date |-> <<3>>]
ViewY2 == [title |-> FdaUpper, url |-> <<"b","/","2">>]

ViewListings(s) ==
    IF s = "X"
    THEN UNION {[1..k -> {ViewA1, ViewA2, ItemE0}] : k \in 0..2}
    ELSE {<< >>, <<ItemY1>>, <<ViewY2>>, <<ItemY1, ViewY2>>}

\* run_scraper for s on an empty corpus with the collector returning
\* `list`; the second site's collector also returns the full content of
\* every url
RECURSIVE ViewAdd(_, _, _)
ViewAdd(self, list, n) ==
    IF list = << >> THEN self
    ELSE ViewAdd(add_announcement(self, Head(list), <<0, self.scraper_name, n>>).self,
                 Tail(list), n + 1)

ViewResult(s, list) ==
    LET r0 == ScraperResult(get_scraper_info(s).name, get_scraper_info(s).website,
                            {}, ContentFilter(filter_config), <<2, 1>>, <<0, s, 0>>)
        r1 == ViewAdd(r0, list, 1)
        urls == NewUrls(list)
        r2 == IF s = "Y"
              THEN AddContents(r1, [i \in DOMAIN urls |-> ContentFor(urls[i])], 10)
              ELSE r1
    IN  RunStatistics(r2)

\* the corpus one run of main() for both scrapers leaves on an empty
\* master file when the collectors list lx and ly
ViewCorpus(lx, ly) ==
    MergedDocument(EmptyCorpus(<<2, 2>>), ScraperOrder,
                   ("X" :> ViewResult("X", lx)) @@ ("Y" :> ViewResult("Y", ly)),
                   <<2, 2>>)

\* the corpora the feeds are generated from
ViewCorpora == {ViewCorpus(lx, ly) : lx \in ViewListings("X"), ly \in ViewListings("Y")}

\* the corpora the KeywordSearcher is run on: the first site with nothing,
\* one or two dated items, or an undated item ahead of a dated one; the
\* second with its ordinary item, alone or followed by an undated one
SearchListings(s) ==
    IF s = "X"
    THEN {<< >>, <<ViewA1>>, <<ViewA2>>, <<ViewA1, ViewA2>>, <<ItemE0, ViewA1>>}
    ELSE {<<ItemY1>>, <<ItemY1, ViewY2>>}

SearchCorpora ==
    {ViewCorpus(lx, ly) : lx \in SearchListings("X"), ly \in SearchListings("Y")}

\* the default of --fields, title alone, and title with a dotted path
DefaultFields == << <<"title">>, <<"excerpt">>, <<"category">>, <<"url">> >>
ViewFieldLists ==
    {DefaultFields, << <<"title">> >>, << <<"title">>, <<"raw_data", "excerpt">> >>}

\* the keyword lists of the queries
ViewKeywordLists == {<<Fda, Approval>>, <<Fda, Fda>>, <<Body>>}

\* the process of main() at rest
ProcessIdle ==
    /\ pc = "idle"
    /\ scraper_arg = "all"
    /\ scrape_full = TRUE
    /\ max_latest = 1
    /\ todo = << >>
    /\ result = NoResult
    /\ pending = << >>
    /\ new_announcements = << >>
    /\ results = << >>
    /\ results_keys = << >>
    /\ to_write = NoData
    /\ clock = <<3, 0>>
    /\ uuid_next = 0
    /\ fetched = 0
    /\ invocations = 0
    /\ last_add = NoAdd
    /\ last_load = NoLoad
    /\ returned = << >>
    /\ merged_returned = << >>
    /\ collector_raised = {}
    /\ pre_merge = NoData

\* the searcher is built (KeywordSearcher.__init__); the command line of
\* the deployment fixes --fields and --case-sensitive, kept in
\* search_info until the first search overwrites them
ViewInit ==
    /\ ProcessIdle
    /\ \E corpus \in SearchCorpora : masterFile = ValidFile(corpus)
    /\ latestFeedFile = NoFeed
    /\ scraperFeedFiles = << >>
    /\ master_data = NoData
    /\ \E fields \in ViewFieldLists, case_sensitive \in BOOLEAN :
          search_results =
              [NewSearchResults(<<3, 0>>) EXCEPT
                  !.search_info.fields_searched = fields,
                  !.search_info.case_sensitive = case_sensitive]
    /\ keywordFeedFile = NoFeed
    /\ view_calls = 0
    /\ feed_master_data = NoData
    /\ archiveFiles = << >>
    /\ indexFile = NoIndex
    /\ acc = NoResult
    /\ acc_call = NoAdd

view_rest == <<masterFile, pc, args, todo, run_locals, results, results_keys, to_write,
               clock, uuid_next, fetched, invocations, history, filter_vars>>

\* FeedGenerator.generate_latest_feed(master_data, max_items) on the
\* loaded master file
GenerateLatestFeed(max_items) ==
    /\ view_calls < MaxViewCalls
    /\ view_calls' = view_calls + 1
    /\ latestFeedFile' = generate_latest_feed(masterFile.data, max_items)
    /\ feed_master_data' = AfterLatestFeed(masterFile.data)
    /\ UNCHANGED <<view_rest, scraperFeedFiles, master_data, search_results,
                   keywordFeedFile, archiveFiles, indexFile>>

\* FeedGenerator.generate_scraper_feeds(master_data, max_items_per_scraper)
GenerateScraperFeeds(max_items) ==
    /\ view_calls < MaxViewCalls
    /\ view_calls' = view_calls + 1
    /\ scraperFeedFiles' = generate_scraper_feeds(masterFile.data, max_items)
    /\ feed_master_data' = AfterScraperFeeds(masterFile.data)
    /\ UNCHANGED <<view_rest, latestFeedFile, master_data, search_results,
                   keywordFeedFile, archiveFiles, indexFile>>

\* KeywordSearcher.load_master_data
LoadMasterData ==
    /\ master_data = NoData
    /\ master_data' = masterFile.data
    /\ UNCHANGED <<view_rest, latestFeedFile, scraperFeedFiles, search_results,
                   keywordFeedFile, view_calls, feed_master_data, archiveFiles, indexFile>>

\* KeywordSearcher.search_announcements(keywords, fields, mode,
\* case_sensitive) with the master data loaded
SearchAnnouncements(keywords, mode) ==
    /\ master_data # NoData
    /\ view_calls < MaxViewCalls
    /\ view_calls' = view_calls + 1
    /\ search_results' =
          search_announcements(search_results, master_data, keywords,
                               search_results.search_info.fields_searched, mode,
                               search_results.search_info.case_sensitive, clock)
    /\ master_data' =
          AfterSearch(master_data, keywords, search_results.search_info.fields_searched,
                      mode, search_results.search_info.case_sensitive)
    /\ UNCHANGED <<view_rest, latestFeedFile, scraperFeedFiles, keywordFeedFile,
                   feed_master_data, archiveFiles, indexFile>>

\* KeywordSearcher.generate_keyword_feed(output_file, max_items, sort_by)
GenerateKeywordFeed(max_items, sort_by) ==
    /\ master_data # NoData
    /\ view_calls < MaxViewCalls
    /\ view_calls' = view_calls + 1
    /\ keywordFeedFile' = generate_keyword_feed(search_results, max_items, sort_by)
    /\ UNCHANGED <<view_rest, latestFeedFile, scraperFeedFiles, master_data,
                   search_results, feed_master_data, archiveFiles, indexFile>>

ViewNext ==
    \/ \E max_items \in 0..MaxFeedItems : GenerateLatestFeed(max_items)
    \/ \E max_items \in {1, MaxFeedItems} : GenerateScraperFeeds(max_items)
    \/ LoadMasterData
    \/ \E keywords \in ViewKeywordLists, mode \in {"any", "all"} :
          SearchAnnouncements(keywords, mode)
    \/ \E sort_by \in {"date", "relevance"} : GenerateKeywordFeed(MaxFeedItems, sort_by)

ViewSpec == ViewInit /\ [][ViewNext]_vars

\* the feeds alone, on every corpus: no KeywordSearcher is built
FeedInit ==
    /\ ProcessIdle
    /\ \E corpus \in ViewCorpora : masterFile = ValidFile(corpus)
    /\ latestFeedFile = NoFeed
    /\ ViewsIdle
    /\ acc = NoResult
    /\ acc_call = NoAdd

FeedNext ==
    \/ \E max_items \in 0..MaxFeedItems : GenerateLatestFeed(max_items)
    \/ \E max_items \in 0..MaxFeedItems : GenerateScraperFeeds(max_items)

FeedSpec == FeedInit /\ [][FeedNext]_vars

(***************************************************************************)
(* The four feed operations of the FeedGenerator and a KeywordSearcher     *)
(* with its feed (ArchiveSpec), on corpora whose dates fall in two months  *)
(* of one year.                                                            *)
(***************************************************************************)
ArchA1 == [title |-> News, url |-> U1, date |-> <<202409, 1>>]
\* an excerpt one character longer than the feeds keep
LongExcerpt == [i \in 1..(ExcerptLimit + 1) |-> "x"]
ArchA2 == [title |-> News, url |-> U2, date |-> <<202409, 5>>, excerpt |-> LongExcerpt]
ArchA3 == [title |-> News, url |-> <<"a","/","3">>, date |-> <<202410, 2>>]
ArchY1 == [title |-> News, url |-> <<"b","/","1">>, date |-> <<202409, 3>>]

ArchiveListings(s) ==
    IF s = "X"
    THEN UNION {[1..k -> {ArchA1, ArchA2, ArchA3, ItemE0}] : k \in 0..2}
    ELSE {<< >>, <<ArchY1>>}

ArchiveCorpora ==
    {ViewCorpus(lx, ly) : lx \in ArchiveListings("X"), ly \in ArchiveListings("Y")}

\* the <<year, month>> the archives are asked for
ArchiveMonths == {<<2024, 9>>, <<2024, 10>>, <<2025, 9>>}

\* the keyword list of the queries: the word of every title and the word
\* of every full content
ArchiveKeywordLists == {<<Lower(News), Body>>}

ArchiveInit ==
    /\ ProcessIdle
    /\ \E corpus \in ArchiveCorpora : masterFile = ValidFile(corpus)
    /\ latestFeedFile = NoFeed
    /\ scraperFeedFiles = << >>
    /\ master_data = NoData
    /\ search_results =
          [NewSearchResults(<<3, 0>>) EXCEPT !.search_info.fields_searched = DefaultFields]
    /\ keywordFeedFile = NoFeed
    /\ view_calls = 0
    /\ feed_master_data = NoData
    /\ archiveFiles = << >>
    /\ indexFile = NoIndex
    /\ acc = NoResult
    /\ acc_call = NoAdd

\* FeedGenerator.generate_monthly_archive(master_data, year, month)
GenerateMonthlyArchive(year, month) ==
    /\ view_calls < MaxViewCalls
    /\ view_calls' = view_calls + 1
    /\ archiveFiles' =
          (MonthStr(year, month) :> generate_monthly_archive(masterFile.data, year, month))
              @@ archiveFiles
    /\ feed_master_data' = AfterMonthlyArchive(masterFile.data, year, month)
    /\ UNCHANGED <<view_rest, latestFeedFile, scraperFeedFiles, master_data,
                   search_results, keywordFeedFile, indexFile>>

\* FeedGenerator.generate_feed_index(master_data)
GenerateFeedIndex ==
    /\ view_calls < MaxViewCalls
    /\ view_calls' = view_calls + 1
    /\ indexFile' = generate_feed_index(masterFile.data, DOMAIN scraperFeedFiles,
                                        DOMAIN archiveFiles)
    /\ feed_master_data' = AfterFeedIndex(masterFile.data)
    /\ UNCHANGED <<view_rest, latestFeedFile, scraperFeedFiles, master_data,
                   search_results, keywordFeedFile, archiveFiles>>

ArchiveNext ==
    \/ GenerateLatestFeed(MaxFeedItems)
    \/ GenerateScraperFeeds(MaxFeedItems)
    \/ \E ym \in ArchiveMonths : GenerateMonthlyArchive(ym[1], ym[2])
    \/ GenerateFeedIndex
    \/ LoadMasterData
    \/ \E keywords \in ArchiveKeywordLists : SearchAnnouncements(keywords, "any")
    \/ \E sort_by \in {"date", "relevance"} : GenerateKeywordFeed(MaxFeedItems, sort_by)

ArchiveSpec == ArchiveInit /\ [][ArchiveNext]_vars

(***************************************************************************)
(* Properties.                                                             *)
(***************************************************************************)
\* whether the content filter of the runs keeps an item
Passes(item) == ~should_filter(ContentFilter(filter_config), item)[1]

ItemUrl(item) == Get(item, "url", << >>)

\* the master file has been rewritten by this process, which still holds
\* the document it loaded and the results it merged
Merged == pc \in {"feeds", "report"}

\* s was in the master file before this merge and is in its new_results
Rerun(s) == s \in Range(results_keys) /\ s \in DOMAIN pre_merge.results_by_scraper

\* no non-empty url occurs twice in a list of announcements
NoUrlTwice(list) ==
    \A i, j \in DOMAIN list : (i # j /\ Truthy(list[i].url)) => list[i].url # list[j].url

\* C1: after collector runs each followed by a merge, every source record
\* of the master file holds at most one announcement per non-empty url.
C1_OneAnnouncementPerUrl ==
    masterFile.state = "valid" =>
        \A s \in DOMAIN masterFile.data.results_by_scraper :
            NoUrlTwice(masterFile.data.results_by_scraper[s].announcements)

\* C2: a merge of a source the master file already holds leaves the
\* stored announcements, full_content and errors in place and appends the
\* new run's lists to them, in their order.
C2_AppendOnlyMerge ==
    Merged =>
        \A s \in Scrapers :
            Rerun(s) =>
                LET old == pre_merge.results_by_scraper[s]
                    new == masterFile.data.results_by_scraper[s]
                IN  /\ new.announcements = old.announcements \o results[s].announcements
                    /\ new.full_content = old.full_content \o results[s].full_content
                    /\ new.errors = old.errors \o results[s].errors

C2_Witness ==
    /\ Merged
    /\ \E s \in Scrapers :
          /\ Rerun(s)
          /\ pre_merge.results_by_scraper[s].announcements # << >>
          /\ pre_merge.results_by_scraper[s].full_content # << >>
          /\ results[s].announcements # << >>
          /\ results[s].errors # << >>

\* the run of s in this process is over, its result is not merged yet, and
\* its collector returned what it returned in the last run of s that was
\* merged into the master file
SecondRunSameData(s) ==
    /\ pc \in {"run", "update"}
    /\ s \in DOMAIN results
    /\ s \in DOMAIN merged_returned
    /\ ~returned[s].raised
    /\ returned[s] = merged_returned[s]

\* C3 as claimed: the second of two runs on identical upstream data
\* accepts nothing, and its skipped_duplicates is the number of
\* announcements the collector returned.
C3_DedupIdempotence ==
    \A s \in Scrapers :
        SecondRunSameData(s) =>
            /\ results[s].announcements = << >>
            /\ results[s].skipped_duplicates = Len(returned[s].list)

\* C3 as amended: the second run accepts no announcement with a non-empty
\* url (the items that pass the filter and carry no url are accepted
\* again), and its skipped_duplicates is the number of returned items that
\* pass the filter and carry a non-empty url.
C3_DedupIdempotenceAmended ==
    \A s \in Scrapers :
        SecondRunSameData(s) =>
            LET list == returned[s].list
                kept == {i \in DOMAIN list : Passes(list[i])}
            IN  /\ \A i \in DOMAIN results[s].announcements :
                      ~Truthy(results[s].announcements[i].url)
                /\ Len(results[s].announcements) =
                      Cardinality({i \in kept : ~Truthy(ItemUrl(list[i]))})
                /\ results[s].skipped_duplicates =
                      Cardinality({i \in kept : Truthy(ItemUrl(list[i]))})

C3_Witness ==
    \E s \in Scrapers :
        /\ SecondRunSameData(s)
        /\ Len(returned[s].list) >= 1
        /\ results[s].skipped_duplicates >= 1

\* C4: add_announcement does not append an item whose non-empty url was
\* accepted earlier in the same run (is in new_urls).
C4_AcceptsUrlOncePerRun == ~(last_add.branch = "accepted" /\ last_add.was_new)

\* C5: add_announcement, given an item that matches a filter rule and
\* whose url is in existing_urls, adds one to filtered_items and leaves
\* skipped_duplicates as it is.
C5_FilterBeforeDedup ==
    [][ ( /\ pc = "adding"
          /\ pending # << >>
          /\ should_filter(result.content_filter, Head(pending))[1]
          /\ ItemUrl(Head(pending)) \in result.existing_urls )
        => ( /\ result'.filtered_items = result.filtered_items + 1
             /\ result'.skipped_duplicates = result.skipped_duplicates
             /\ result'.announcements = result.announcements ) ]_vars

C5_Witness ==
    /\ last_add.branch = "filtered"
    /\ last_add.was_existing
    /\ result.filtered_items = 1
    /\ result.skipped_duplicates = 0

\* the sum of Len(rbs[s][field]) over the scrapers in S
RECURSIVE TotalLen(_, _, _)
TotalLen(rbs, S, field) ==
    IF S = {} THEN 0
    ELSE LET s == CHOOSE x \in S : TRUE
         IN  Len(rbs[s][field]) + TotalLen(rbs, S \ {s}, field)

\* C6: the summary of the master file holds the totals of the lists of
\* its source records, and the number of source records.
C6_SummaryConsistency ==
    masterFile.state = "valid" =>
        LET rbs == masterFile.data.results_by_scraper
            summary == masterFile.data.summary
        IN  /\ summary.total_announcements = TotalLen(rbs, DOMAIN rbs, "announcements")
            /\ summary.total_full_content = TotalLen(rbs, DOMAIN rbs, "full_content")
            /\ summary.total_errors = TotalLen(rbs, DOMAIN rbs, "errors")
            /\ summary.scrapers_count = Cardinality(DOMAIN rbs)

C6_Witness ==
    /\ Merged
    /\ Cardinality(DOMAIN masterFile.data.results_by_scraper) = 2
    /\ masterFile.data.summary.total_announcements >= 3
    /\ masterFile.data.summary.total_errors >= 1
    /\ masterFile.data.scraping_history.total_scrapes >= 2

\* the urls the master file held for s before this merge
PreUrls(s) ==
    UrlsOf(pre_merge.results_by_scraper[s].announcements)
        \cup UrlsOf(pre_merge.results_by_scraper[s].full_content)

\* a listed item the re-run of s has to accept: the filter keeps it and
\* its url is not one the record of s holds
ToAccept(s, item) ==
    Passes(item) /\ ~(Truthy(ItemUrl(item)) /\ ItemUrl(item) \in PreUrls(s))

RECURSIVE Accepted(_, _)
Accepted(s, list) ==
    IF list = << >> THEN << >>
    ELSE (IF ToAccept(s, Head(list)) THEN <<Head(list)>> ELSE << >>)
            \o Accepted(s, Tail(list))

\* what C7 says of the run and the merge of a source that is run again
RerunAcceptsNewOnly(s) ==
    LET list == returned[s].list
        anns == results[s].announcements
    IN  /\ [i \in DOMAIN anns |-> anns[i].raw_data] = Accepted(s, list)
        /\ results[s].skipped_duplicates =
              Cardinality({i \in DOMAIN list :
                  /\ Passes(list[i])
                  /\ Truthy(ItemUrl(list[i]))
                  /\ ItemUrl(list[i]) \in PreUrls(s)})
        /\ masterFile.data.results_by_scraper[s].announcements =
              pre_merge.results_by_scraper[s].announcements \o anns

\* every announcement the master file holds
StoredAnnouncements ==
    UNION {Range(masterFile.data.results_by_scraper[s].announcements) :
              s \in DOMAIN masterFile.data.results_by_scraper}

\* the latest feed has just been written with max_items = 1 after the
\* merge of a re-run of s whose listing returned
LatestOneAfterRerun(s) ==
    pc = "report" /\ max_latest = 1 /\ Rerun(s) /\ ~returned[s].raised

\* C7 as claimed: a source that is run again accepts the items that pass
\* the filter and whose url its record does not hold, counts one skipped
\* duplicate for each url it holds, the merged record is the old
\* announcements followed by the accepted ones, and latest(1) is the
\* announcement with the greatest date.
C7_CrossRunDedup ==
    \A s \in Scrapers :
        LatestOneAfterRerun(s) =>
            /\ RerunAcceptsNewOnly(s)
            /\ StoredAnnouncements # {} =>
                  /\ Len(latestFeedFile.items) = 1
                  /\ \A a \in StoredAnnouncements :
                        ~StrLess(latestFeedFile.items[1].date, a.date)

\* the key the latest feed is sorted by: the date, and scraped_at for an
\* announcement without one
FeedKey(a) == IF a.date # << >> THEN a.date ELSE a.scraped_at

\* C7 as amended: the same, with latest(1) an announcement with the
\* greatest sort key, the key being the date, or scraped_at when the date
\* is empty.
C7_CrossRunDedupAmended ==
    \A s \in Scrapers :
        LatestOneAfterRerun(s) =>
            /\ RerunAcceptsNewOnly(s)
            /\ StoredAnnouncements # {} =>
                  /\ Len(latestFeedFile.items) = 1
                  /\ \A a \in StoredAnnouncements :
                        ~StrLess(FeedKey(latestFeedFile.items[1]), FeedKey(a))

\* the scenario of the spec: X holds a/1, the re-run lists a/1 and a/2
C7_Witness ==
    /\ LatestOneAfterRerun("X")
    /\ Len(pre_merge.results_by_scraper["X"].announcements) = 1
    /\ pre_merge.results_by_scraper["X"].announcements[1].url = U1
    /\ returned["X"].list = <<ItemA1, ItemA2>>
    /\ Len(results["X"].announcements) = 1
    /\ results["X"].skipped_duplicates = 1
    /\ Len(masterFile.data.results_by_scraper["X"].announcements) = 2
    /\ latestFeedFile.items[1].url = U2

\* C8: whenever the process is gone, interrupted or not, the master file
\* is a complete document (the one before the write or the new one).
C8_PersistAtomic == pc = "idle" => masterFile.state # "partial"

\* C9: load_existing_data returns the empty structure when the master
\* file is absent, and also when it is there and does not parse.
C9_LoadAlwaysReturns ==
    last_load.file_state \in {"absent", "partial"} =>
        (~last_load.raised /\ last_load.empty_shape)

\* C10: when run_all_scrapers has returned and the listing or expansion
\* of some collector raised, every loaded collector has been run and has
\* a result, and the results with an error are those of the collectors
\* that raised, one error each.
C10_FailureIsolation ==
    (pc = "update" /\ scraper_arg = "all" /\ collector_raised # {}) =>
        \A t \in Scrapers :
            /\ t \in DOMAIN returned
            /\ t \in DOMAIN results
            /\ Len(results[t].errors) = (IF t \in collector_raised THEN 1 ELSE 0)

C10_Witness ==
    /\ pc = "update"
    /\ scraper_arg = "all"
    /\ collector_raised = {"X"}
    /\ results["Y"].announcements # << >>
    /\ results["Y"].full_content # << >>

\* the items of a listing a run accepts: the filter keeps them and their
\* url is not one the run found in the master file
RECURSIVE RunAccepts(_, _)
RunAccepts(existing_urls, list) ==
    IF list = << >> THEN << >>
    ELSE (IF /\ Passes(Head(list))
             /\ ~(Truthy(ItemUrl(Head(list))) /\ ItemUrl(Head(list)) \in existing_urls)
          THEN <<Head(list)>> ELSE << >>)
            \o RunAccepts(existing_urls, Tail(list))

\* C11: when the collector of s raised (its listing, or its expansion
\* after announcements were accepted), the result of s holds the
\* announcements accepted before the failure and exactly one error, and
\* update_master_file puts both into the record of s: appended to the
\* lists of a source it already holds, as the lists of a new one.
C11_PartialResultsSurvive ==
    Merged =>
        \A s \in collector_raised :
            LET anns == results[s].announcements
                rec  == masterFile.data.results_by_scraper[s]
                old  == IF Rerun(s) THEN pre_merge.results_by_scraper[s]
                        ELSE [announcements |-> << >>, errors |-> << >>]
            IN  /\ s \in Range(results_keys)
                /\ [i \in DOMAIN anns |-> anns[i].raw_data]
                      = RunAccepts(results[s].existing_urls, returned[s].list)
                /\ Len(results[s].errors) = 1
                /\ rec.announcements = old.announcements \o anns
                /\ rec.errors = old.errors \o results[s].errors

C11_Witness ==
    /\ Merged
    /\ "X" \in collector_raised
    /\ Rerun("X")
    /\ Len(results["X"].announcements) >= 1
    /\ results["X"].full_content = << >>
    /\ Len(masterFile.data.results_by_scraper["X"].announcements) >= 2
    /\ Len(masterFile.data.results_by_scraper["X"].errors) = 1

\* the sum of the counts of a reason -> count mapping
RECURSIVE SumCounts(_, _)
SumCounts(reasons, S) ==
    IF S = {} THEN 0
    ELSE LET r == CHOOSE x \in S : TRUE
         IN  reasons[r] + SumCounts(reasons, S \ {r})

\* C12: in the serialization of every run's result, the counts of
\* statistics.filter_reasons add up to statistics.filtered_items.
C12_FilterReasonsTally ==
    \A s \in DOMAIN results :
        LET st == to_dict(results[s]).statistics
        IN  SumCounts(st.filter_reasons, DOMAIN st.filter_reasons) = st.filtered_items

(***************************************************************************)
(* Properties of FilterSpec.                                               *)
(***************************************************************************)
\* the rule kinds in the order of the specification
RuleKinds ==
    <<exact_title_match, title_keyword, url_keyword, url_pattern, category_reason,
      title_too_short, custom_filter>>

\* whether some rule of kind k of filter f matches the item, each kind by
\* its own condition
KindMatches(f, item, k) ==
    LET title == Get(item, "title", << >>)
        url == Get(item, "url", << >>)
        category == Get(item, "category", << >>)
        fold(x) == IF f.case_sensitive THEN x ELSE Lower(x)
    IN  CASE k = 1 -> \E i \in DOMAIN f.title_exclude_exact :
                          fold(f.title_exclude_exact[i]) = fold(title)
          [] k = 2 -> \E i \in DOMAIN f.title_exclude_keywords :
                          Contains(fold(f.title_exclude_keywords[i]), fold(title))
          [] k = 3 -> \E i \in DOMAIN f.url_exclude_keywords :
                          Contains(fold(f.url_exclude_keywords[i]), fold(url))
          [] k = 4 -> \E i \in DOMAIN f.url_exclude_patterns :
                          Contains(fold(f.url_exclude_patterns[i]), fold(url))
          [] k = 5 -> \E i \in DOMAIN f.category_exclude :
                          fold(f.category_exclude[i]) = fold(category)
          [] k = 6 -> Len(Strip(title)) < f.min_title_length
          [] k = 7 -> \E i \in DOMAIN f.custom_filter_functions :
                          f.custom_filter_functions[i][item] = "true"

\* an add_announcement call has been made on the ScraperResult
Called == acc_call.branch # "none"

\* C13: the reason should_filter reports is of the earliest rule kind, in
\* the order exact title, title keyword, url keyword, url pattern,
\* category, title length, custom predicate, that matches the item; an
\* item no rule matches is kept with the empty reason.
C13_FirstMatchWins ==
    Called =>
        LET f == acc.content_filter
            hits == {k \in DOMAIN RuleKinds : KindMatches(f, acc_call.item, k)}
        IN  IF hits = {}
            THEN acc_call.out = <<FALSE, << >> >>
            ELSE LET first == CHOOSE k \in hits : \A j \in hits : k <= j
                 IN  /\ acc_call.out[1]
                     /\ StartsWith(acc_call.out[2], RuleKinds[first])
                     /\ \A j \in DOMAIN RuleKinds :
                           j # first => ~StartsWith(acc_call.out[2], RuleKinds[j])

\* an item that the category rule and a later rule match, and no earlier one
C13_Witness ==
    /\ Called
    /\ KindMatches(acc.content_filter, acc_call.item, 5)
    /\ KindMatches(acc.content_filter, acc_call.item, 6)
    /\ KindMatches(acc.content_filter, acc_call.item, 7)
    /\ \A k \in 1..4 : ~KindMatches(acc.content_filter, acc_call.item, k)
    /\ StartsWith(acc_call.out[2], category_reason)

\* the scenario of C14: title_exclude_exact is ["Subscribe to RSS"], the
\* matching is case-insensitive, and the item added has that title in
\* some letter case
ExactScenario ==
    /\ Called
    /\ acc.content_filter.title_exclude_exact = <<SubscribeToRss>>
    /\ ~acc.content_filter.case_sensitive
    /\ Lower(Get(acc_call.item, "title", << >>)) = Lower(SubscribeToRss)

\* the call took the filter branch: the duplicate test was not reached
DroppedBeforeDedup ==
    /\ acc_call.branch = "filtered"
    /\ acc.skipped_duplicates = acc_call.skipped_before

RaisingPredicates ==
    {i \in DOMAIN acc.content_filter.custom_filter_functions :
        acc.content_filter.custom_filter_functions[i][acc_call.item] = "raise"}

\* no rule ahead of the custom predicates matches the item added
ReachesCustom ==
    \A k \in 1..6 : ~KindMatches(acc.content_filter, acc_call.item, k)

\* C15: when the custom predicates are reached and one of them raises on
\* the item, should_filter returns all the same, keeps the item unless a
\* predicate returns true, and drops it as custom_filter when one does,
\* be it after the one that raised.
C15_RaisingPredicateSkipped ==
    (Called /\ ReachesCustom /\ RaisingPredicates # {}) =>
        IF KindMatches(acc.content_filter, acc_call.item, 7)
        THEN acc_call.out = <<TRUE, custom_filter>>
        ELSE acc_call.out = <<FALSE, << >> >> /\ acc_call.branch # "filtered"

\* the first predicate raises and the second returns true
C15_Witness ==
    /\ Called
    /\ ReachesCustom
    /\ acc.content_filter.custom_filter_functions = <<AlwaysRaises, AlwaysTrue>>
    /\ acc_call.out = <<TRUE, custom_filter>>
    /\ acc_call.branch = "filtered"

(***************************************************************************)
(* Properties of ViewSpec and FeedSpec.                                    *)
(***************************************************************************)
\* the query of the last search_announcements call
Query == search_results.search_info

\* a search has been made on the loaded master data
Searched == master_data # NoData /\ Query.keywords # << >>

\* whether a field of the item contains the keyword, under the case rule
\* of the query
KeywordInItem(item, keyword, fields, case_sensitive) ==
    \E f \in Range(fields) :
        LET text == FieldValue(item, f)
        IN  IF case_sensitive THEN Contains(keyword, text)
            ELSE Contains(Lower(keyword), Lower(text))

\* what the modes mean: every keyword of the list, or at least one, is in
\* at least one of the fields
ModeAccepts(item, keywords, fields, mode, case_sensitive) ==
    IF mode = "all"
    THEN \A i \in DOMAIN keywords :
            KeywordInItem(item, keywords[i], fields, case_sensitive)
    ELSE \E i \in DOMAIN keywords :
            KeywordInItem(item, keywords[i], fields, case_sensitive)

\* C16: for the query made, _search_in_item accepts an announcement of
\* the corpus exactly when its mode says so: under `all` when every keyword
\* of the list is in some searched field, under `any` when at least one is.
C16_KeywordModes ==
    Searched =>
        \A s \in DOMAIN master_data.results_by_scraper :
            \A i \in DOMAIN master_data.results_by_scraper[s].announcements :
                LET item == master_data.results_by_scraper[s].announcements[i]
                IN  search_in_item(item, Query.keywords, Query.fields_searched,
                                   Query.search_mode, Query.case_sensitive)[1]
                    = ModeAccepts(item, Query.keywords, Query.fields_searched,
                                  Query.search_mode, Query.case_sensitive)

\* whether a record of a list matches the query
SomeRecordMatches(list, fields) ==
    \E i \in DOMAIN list :
        search_in_item(list[i], Query.keywords, fields, Query.search_mode,
                       Query.case_sensitive)[1]

\* the sources with an announcement or a full-content record that matches
\* the query
SourcesWithMatches ==
    {s \in DOMAIN master_data.results_by_scraper :
        \/ SomeRecordMatches(master_data.results_by_scraper[s].announcements,
                             Query.fields_searched)
        \/ SomeRecordMatches(master_data.results_by_scraper[s].full_content,
                             Query.fields_searched \o << <<"full_content">> >>)}

\* C19: after the searches made so far, results_by_scraper holds exactly
\* the sources with a match for the last query.
C19_OnlySourcesWithMatches ==
    Searched => DOMAIN search_results.results_by_scraper = SourcesWithMatches

\* the items are in descending order of the key date, or scraped_at for
\* an item without a date
InKeyOrder(items) ==
    \A i, j \in DOMAIN items :
        i < j => ~StrLess(FeedKey(items[i]), FeedKey(items[j]))

\* two lists hold the same elements the same number of times
SameElements(a, b) ==
    /\ Len(a) = Len(b)
    /\ \A x \in Range(a) \cup Range(b) :
          Cardinality({i \in DOMAIN a : a[i] = x}) = Cardinality({i \in DOMAIN b : b[i] = x})

\* the projection of every announcement of the corpus, tagged with its
\* scraper
Projections(corpus) ==
    LET rbs == corpus.results_by_scraper
    IN  UNION { { create_lightweight_item(rbs[s].announcements[i]) @@ [scraper |-> s] :
                    i \in DOMAIN rbs[s].announcements } : s \in DOMAIN rbs }

\* the number of announcements of the corpus
CorpusSize(corpus) ==
    TotalLen(corpus.results_by_scraper, DOMAIN corpus.results_by_scraper, "announcements")

\* C17: the latest feed written with max_items = n holds at most n items,
\* and they are the first n of the feed written without a limit, which
\* holds the projection of every announcement of every source in
\* descending order of date, or scraped_at where the date is empty.
C17_FeedTruncation ==
    latestFeedFile.feed_type = "latest" =>
        LET corpus == masterFile.data
            n == latestFeedFile.max_items
            items == latestFeedFile.items
            full == generate_latest_feed(corpus, CorpusSize(corpus)).items
        IN  /\ Len(items) <= n
            /\ latestFeedFile.total_items = Len(items)
            /\ items = SubSeq(full, 1, IF n < Len(full) THEN n ELSE Len(full))
            /\ Len(full) = CorpusSize(corpus)
            /\ Range(full) = Projections(corpus)
            /\ SameElements(full, AllItems(corpus, corpus.scraper_keys))
            /\ InKeyOrder(full)

\* a feed of one item cut from a corpus of three announcements, the first
\* of them stored after an announcement with a smaller key
C17_Witness ==
    /\ latestFeedFile.feed_type = "latest"
    /\ latestFeedFile.max_items = 1
    /\ CorpusSize(masterFile.data) = 3
    /\ Len(latestFeedFile.items) = 1
    /\ latestFeedFile.items[1] #
          AllItems(masterFile.data, masterFile.data.scraper_keys)[1]

\* the item lists of the feeds on disk that were sorted by date: the latest
\* feed, the feed of every scraper, the keyword feed written with sort_by
\* "date"
DateSortedFeeds ==
    (IF latestFeedFile.feed_type = "latest" THEN {latestFeedFile.items} ELSE {})
    \cup {scraperFeedFiles[s].items : s \in DOMAIN scraperFeedFiles}
    \cup (IF keywordFeedFile.feed_type = "keyword_search" /\ keywordFeedFile.sort_by = "date"
          THEN {keywordFeedFile.items} ELSE {})

\* no item without a date stands before an item with a date
EmptyDatesLast(items) ==
    \A i, j \in DOMAIN items :
        i < j => ~(items[i].date = << >> /\ items[j].date # << >>)

\* C18: in every date-sorted feed (the latest feed, the feeds per source
\* and the keyword feed with sort_by = date) every item with an empty date
\* is placed after every item with a populated date.
C18_EmptyDatesLast ==
    \A items \in DateSortedFeeds : EmptyDatesLast(items)

\* C18, as the code has it: every date-sorted feed is in descending order
\* of the key "date, or scraped_at when the date is empty", so an item
\* without a date stands where its scraped_at puts it, before every item
\* whose date is smaller than that timestamp.
C18_EmptyDatesByScrapedAt ==
    \A items \in DateSortedFeeds :
        /\ InKeyOrder(items)
        /\ \A i, j \in DOMAIN items :
              (items[i].date = << >> /\ items[j].date # << >>
                 /\ StrLess(items[j].date, items[i].scraped_at)) => i < j

\* an undated item stands directly before a dated one
UndatedFirst(items) ==
    \E i \in DOMAIN items :
        i + 1 \in DOMAIN items /\ items[i].date = << >> /\ items[i + 1].date # << >>

\* a keyword feed sorted by date whose undated item, scraped after the
\* date of the dated one, stands first
C18_Witness ==
    /\ keywordFeedFile.feed_type = "keyword_search"
    /\ keywordFeedFile.sort_by = "date"
    /\ UndatedFirst(keywordFeedFile.items)
    /\ StrLess(keywordFeedFile.items[2].date, keywordFeedFile.items[1].scraped_at)

\* C20: the merge of a source the master file already holds sets
\* total_announcements, total_full_content and total_errors to the lengths
\* of the lists after the append, whatever the totals of the new run are,
\* and copies the new run's count of new items, of skipped duplicates, of
\* filtered items and its filter reasons unchanged.
C20_MergeStatistics ==
    Merged =>
        \A s \in Scrapers :
            Rerun(s) =>
                LET old == pre_merge.results_by_scraper[s]
                    rec == masterFile.data.results_by_scraper[s]
                    new_stats == to_dict(results[s]).statistics
                IN  /\ rec.statistics.total_announcements = Len(rec.announcements)
                    /\ rec.statistics.total_full_content = Len(rec.full_content)
                    /\ rec.statistics.total_errors = Len(rec.errors)
                    /\ rec.statistics.total_announcements =
                          Len(old.announcements) + new_stats.total_announcements
                    /\ rec.statistics.total_full_content =
                          Len(old.full_content) + new_stats.total_full_content
                    /\ rec.statistics.total_errors = Len(old.errors) + new_stats.total_errors
                    /\ rec.statistics.last_scrape_new_items = new_stats.total_announcements
                    /\ rec.statistics.last_scrape_skipped = new_stats.skipped_duplicates
                    /\ rec.statistics.last_scrape_filtered = new_stats.filtered_items
                    /\ rec.statistics.filter_reasons = new_stats.filter_reasons

\* a merged run over a stored source with announcements, which accepted an
\* item, skipped a duplicate and filtered an item
C20_Witness ==
    /\ Merged
    /\ \E s \in Scrapers :
          /\ Rerun(s)
          /\ pre_merge.results_by_scraper[s].announcements # << >>
          /\ to_dict(results[s]).statistics.total_announcements > 0
          /\ to_dict(results[s]).statistics.skipped_duplicates > 0
          /\ to_dict(results[s]).statistics.filtered_items > 0
          /\ masterFile.data.results_by_scraper[s].statistics.total_announcements
                > to_dict(results[s]).statistics.total_announcements

\* run_scraper has gone through the listing and is about to call
\* scrape_full_content with RequestedUrls
ExpansionDue == pc = "adding" /\ pending = << >> /\ CallsFullContent

RequestedUrls == NewUrls(new_announcements)

\* the urls of the full_content entries of a list, in order
ContentUrls(list) == [i \in DOMAIN list |-> list[i].url]

\* what a run of run_scraper that ends in this step does with full content
ExpansionStep ==
    (pc = "adding" /\ pc' = "run") =>
        LET s == Head(todo)
            stored == results'[s].full_content
        IN  /\ result.full_content = << >>
            /\ stored # << >> => (ExpansionDue /\ scrape_full)
            /\ ExpansionDue =>
                  /\ \A i \in DOMAIN RequestedUrls :
                        /\ Truthy(RequestedUrls[i])
                        /\ RequestedUrls[i] \in result.new_urls
                        /\ RequestedUrls[i] \notin result.existing_urls
                        /\ \E k \in DOMAIN result.announcements :
                              /\ result.announcements[k].url = RequestedUrls[i]
                              /\ Passes(result.announcements[k].raw_data)
                  /\ Len(RequestedUrls) =
                        Cardinality({k \in DOMAIN result.announcements :
                                        Truthy(result.announcements[k].url)})
                  /\ \/ stored = << >>
                     \/ /\ ContentUrls(stored) = RequestedUrls
                        /\ \A i \in DOMAIN stored :
                              stored[i].raw_data = ContentFor(RequestedUrls[i])

\* a stored result is never expanded again
StoredResultsKept ==
    \A s \in DOMAIN results : s \in DOMAIN results' => results'[s] = results[s]

\* C21: run_scraper calls scrape_full_content at most once, only when full
\* content is enabled, and only with the non-empty urls of the
\* announcements this run accepted (each passed the filter and was not an
\* existing url); whatever the call returns is appended by
\* add_full_content, with no filter and no dedup check.
C21_ExpansionOnlyForAccepted == [][ExpansionStep /\ StoredResultsKept]_vars

\* a run whose listing held a filtered item, a duplicate and a new item
\* has stored the full content of the new item alone
C21_Witness ==
    /\ pc = "run"
    /\ \E s \in DOMAIN results :
          /\ results[s].filtered_items > 0
          /\ results[s].skipped_duplicates > 0
          /\ Len(results[s].announcements) = 1
          /\ Len(results[s].full_content) = 1
          /\ results[s].full_content[1].url = results[s].announcements[1].url

\* a step is a call of one of the four feed operations of the FeedGenerator
FeedCall ==
    <<latestFeedFile, scraperFeedFiles, archiveFiles, indexFile, feed_master_data>>'
        # <<latestFeedFile, scraperFeedFiles, archiveFiles, indexFile, feed_master_data>>

\* C22: generate_latest_feed, generate_scraper_feeds,
\* generate_monthly_archive and generate_feed_index leave the master_data
\* they are given as it was loaded, every source record and announcement
\* of it, and do not write the master file.
C22_FeedsLeaveCorpus ==
    [][FeedCall => (feed_master_data' = masterFile.data /\ masterFile' = masterFile)]_vars

\* the latest feed and a monthly archive were written, each with an item
\* that carries the name of its scraper
C22_Witness ==
    /\ feed_master_data # NoData
    /\ latestFeedFile.feed_type = "latest"
    /\ \E i \in DOMAIN latestFeedFile.items : latestFeedFile.items[i].scraper = "X"
    /\ \E m \in DOMAIN archiveFiles :
          \E i \in DOMAIN archiveFiles[m].items : archiveFiles[m].items[i].scraper = "X"

\* the announcements of the corpus whose date starts with the prefix of
\* the month, as <<scraper, position>>
InMonth(corpus, month_str) ==
    UNION { { <<s, i>> : i \in { j \in DOMAIN corpus.results_by_scraper[s].announcements :
                                   StartsWith(corpus.results_by_scraper[s].announcements[j].date,
                                              month_str) } } :
            s \in DOMAIN corpus.results_by_scraper }

ProjectionOf(corpus, si) ==
    create_lightweight_item(corpus.results_by_scraper[si[1]].announcements[si[2]])
        @@ [scraper |-> si[1]]

\* C24: the monthly archive of a year and month holds exactly the
\* projections of the announcements of all sources whose date starts with
\* the YYYY-MM prefix, in descending order of date, all of them: its item
\* count is the number of such announcements.
C24_MonthlyArchive ==
    \A m \in DOMAIN archiveFiles :
        LET feed == archiveFiles[m]
            corpus == masterFile.data
            month_str == MonthStr(feed.year, feed.month)
            wanted == InMonth(corpus, month_str)
        IN  /\ m = month_str
            /\ feed.total_items = Len(feed.items)
            /\ Len(feed.items) = Cardinality(wanted)
            /\ Range(feed.items) = {ProjectionOf(corpus, si) : si \in wanted}
            /\ \A x \in Range(feed.items) :
                  Cardinality({i \in DOMAIN feed.items : feed.items[i] = x})
                      = Cardinality({si \in wanted : ProjectionOf(corpus, si) = x})
            /\ \A i, j \in DOMAIN feed.items :
                  i < j => ~StrLess(feed.items[i].date, feed.items[j].date)

\* an archive of two items of one month, the later one first though it is
\* of the second site, from a corpus that holds a third announcement
C24_Witness ==
    \E m \in DOMAIN archiveFiles :
        /\ Len(archiveFiles[m].items) = 2
        /\ StrLess(archiveFiles[m].items[2].date, archiveFiles[m].items[1].date)
        /\ archiveFiles[m].items[1].scraper # archiveFiles[m].items[2].scraper
        /\ masterFile.data.summary.total_announcements = 3

\* the announcements and full_content records of a corpus
RecordsOf(corpus) ==
    UNION { Range(corpus.results_by_scraper[s].announcements)
              \cup Range(corpus.results_by_scraper[s].full_content) :
            s \in DOMAIN corpus.results_by_scraper }

\* C23: whatever searches were made, the master data of the
\* KeywordSearcher is the corpus as it was loaded: no announcement and no
\* full_content record of it has a _search_matches field or has changed;
\* the match maps are on the copies in the search results.
C23_SearchReadOnly ==
    master_data # NoData =>
        /\ master_data = masterFile.data
        /\ \A r \in RecordsOf(master_data) : "_search_matches" \notin DOMAIN r
        /\ \A r \in RecordsOf(search_results) : "_search_matches" \in DOMAIN r

\* two searches were made and the results hold a matched announcement and
\* a matched full_content record
C23_Witness ==
    /\ master_data # NoData
    /\ view_calls = 2
    /\ keywordFeedFile = NoFeed /\ latestFeedFile = NoFeed /\ scraperFeedFiles = << >>
    /\ \E s \in DOMAIN search_results.results_by_scraper :
          search_results.results_by_scraper[s].announcements # << >>
    /\ \E s \in DOMAIN search_results.results_by_scraper :
          search_results.results_by_scraper[s].full_content # << >>

\* the step writes the keyword feed
KeywordFeedWritten == keywordFeedFile' # keywordFeedFile

\* the matched keyword instances of a feed item: one for each position of
\* each of its per-field lists
MatchInstances(item) ==
    UNION { { <<f, i>> : i \in DOMAIN item.matched_keywords[f] } :
            f \in DOMAIN item.matched_keywords }

\* x comes before y in descending order of (relevance_score, date), or
\* the two are equal in it
PairNotLess(x, y) ==
    \/ x.relevance_score > y.relevance_score
    \/ x.relevance_score = y.relevance_score /\ ~StrLess(x.date, y.date)

\* the number of matched records of the search results
MatchedCount(sr) ==
    TotalLen(sr.results_by_scraper, DOMAIN sr.results_by_scraper, "announcements")
      + TotalLen(sr.results_by_scraper, DOMAIN sr.results_by_scraper, "full_content")

\* C25: every item of the keyword feed has as relevance_score the number
\* of matched keyword instances of its record, the sum of the lengths of
\* its per-field lists; a feed written with sort_by = relevance holds the
\* first max_items of the items of all matched records put in descending
\* order of (relevance_score, date).
C25_RelevanceStep ==
    KeywordFeedWritten =>
        LET feed == keywordFeedFile'
            all == KeywordItems(search_results, search_results.result_keys)
            full == generate_keyword_feed(search_results, Len(all), feed.sort_by).items
        IN  /\ \A i \in DOMAIN feed.items :
                  feed.items[i].relevance_score = Cardinality(MatchInstances(feed.items[i]))
            /\ Len(all) = MatchedCount(search_results)
            /\ feed.sort_by = "relevance" =>
                  /\ SameElements(full, all)
                  /\ \A i, j \in DOMAIN full : i < j => PairNotLess(full[i], full[j])
                  /\ feed.items = SubSeq(full, 1, IF feed.max_items < Len(full)
                                                    THEN feed.max_items ELSE Len(full))

C25_KeywordFeedRelevance == [][C25_RelevanceStep]_vars

\* a feed sorted by relevance and cut to two of three matched records,
\* the first with two keyword instances and the second with one
C25_Witness ==
    /\ keywordFeedFile.feed_type = "keyword_search"
    /\ keywordFeedFile.sort_by = "relevance"
    /\ MatchedCount(search_results) >= 3
    /\ Len(keywordFeedFile.items) = keywordFeedFile.max_items
    /\ keywordFeedFile.items[1].relevance_score = 2
    /\ keywordFeedFile.items[2].relevance_score = 1
    /\ keywordFeedFile.items[1] # KeywordItems(search_results, search_results.result_keys)[1]

\* the items of every feed on disk
FeedItemsOnDisk ==
    Range(latestFeedFile.items)
      \cup UNION {Range(scraperFeedFiles[s].items) : s \in DOMAIN scraperFeedFiles}
      \cup UNION {Range(archiveFiles[m].items) : m \in DOMAIN archiveFiles}
      \cup Range(keywordFeedFile.items)

\* the fields of the items of the feeds
AnnouncementFields ==
    {"id", "title", "url", "date", "category", "excerpt", "source_website", "scraped_at"}
KeywordFields == {"scraper", "matched_keywords", "relevance_score"}
ContentFields ==
    {"id", "title", "url", "date", "source_website", "scraper", "scraped_at", "word_count",
     "matched_keywords", "relevance_score", "has_full_content"}

\* C26: every item of every feed written is a projection with fixed
\* fields, its excerpt no longer than 200 characters, without the
\* raw_data payload and without the full_content body, whatever the
\* corpus holds.
C26_FeedItemsAreProjections ==
    \A x \in FeedItemsOnDisk :
        /\ "raw_data" \notin DOMAIN x
        /\ "full_content" \notin DOMAIN x
        /\ "excerpt" \in DOMAIN x => Len(x.excerpt) <= ExcerptLimit
        /\ \/ DOMAIN x = AnnouncementFields
           \/ DOMAIN x = AnnouncementFields \cup {"scraper"}
           \/ DOMAIN x = AnnouncementFields \cup KeywordFields
           \/ DOMAIN x = ContentFields

\* the keyword feed holds the item of a full-content record and the item
\* of an announcement whose excerpt, longer than the limit in the corpus
\* and in its raw_data, was cut
C26_Witness ==
    /\ \E x \in Range(keywordFeedFile.items) : DOMAIN x = ContentFields
    /\ \E x \in Range(keywordFeedFile.items) :
          DOMAIN x # ContentFields /\ Len(x.excerpt) = ExcerptLimit
    /\ \E s \in DOMAIN masterFile.data.results_by_scraper :
          \E a \in Range(masterFile.data.results_by_scraper[s].announcements) :
              Len(a.excerpt) > ExcerptLimit /\ Len(a.raw_data.excerpt) > ExcerptLimit

\* filtered_items, skipped_duplicates and len(announcements) of an
\* accumulator
Tally(r) == <<r.filtered_items, r.skipped_duplicates, Len(r.announcements)>>

\* the step is a call of add_announcement in the loop of run_scraper
AddCall == pc = "adding" /\ pending' # pending

\* what one call of add_announcement does to the counts of the
\* accumulator, n being the number of calls made on it so far
AccountingStep ==
    AddCall =>
        LET before == Tally(result)
            after == Tally(result')
            n == Len(returned[Head(todo)].list) - Len(pending')
        IN  /\ <<after[1] - before[1], after[2] - before[2], after[3] - before[3]>>
                  \in {<<1, 0, 0>>, <<0, 1, 0>>, <<0, 0, 1>>}
            /\ after[1] + after[2] + after[3] = n
            /\ last_add'.ret <=> (after[3] = before[3] + 1)
            /\ Len(new_announcements') = after[3]

\* C27: every add_announcement call adds one to exactly one of
\* filtered_items, skipped_duplicates and the length of announcements, so
\* after n calls the three add up to n; the call returns True exactly
\* when the item was appended.
C27_Accounting == [][AccountingStep]_vars

\* three calls were made on one accumulator: one filtered, one skipped,
\* one accepted
C27_Witness ==
    /\ pc = "adding"
    /\ pending = << >>
    /\ Tally(result) = <<1, 1, 1>>

\* the sources the master file held before this merge that are not in
\* new_results
Untouched == DOMAIN pre_merge.results_by_scraper \ Range(results_keys)

\* C28: update_master_file changes the source records named in
\* new_results alone: every other record of the loaded corpus is written
\* back as it was, with its announcements, full_content, errors and
\* statistics, at its place in the order of the sources.
C28_UntouchedSourcesKept ==
    Merged =>
        /\ \A s \in Untouched :
              /\ s \in DOMAIN masterFile.data.results_by_scraper
              /\ masterFile.data.results_by_scraper[s] = pre_merge.results_by_scraper[s]
        /\ SubSeq(masterFile.data.scraper_keys, 1, Len(pre_merge.scraper_keys))
              = pre_merge.scraper_keys

\* a merge of a run of the first scraper that added an announcement and
\* its full content, over a corpus that holds a record of the second with
\* an announcement and its full content
C28_Witness ==
    /\ Merged
    /\ \E s \in Untouched :
          /\ pre_merge.results_by_scraper[s].announcements # << >>
          /\ pre_merge.results_by_scraper[s].full_content # << >>
    /\ \E s \in Range(results_keys) :
          /\ Rerun(s)
          /\ results[s].announcements # << >>
          /\ results[s].full_content # << >>

\* C29: after any sequence of search_announcements calls on one
\* KeywordSearcher, summary.total_matches is the sum of
\* summary.total_matched_announcements and
\* summary.total_matched_full_content, and both equal the number of
\* matching records held in results_by_scraper.
C29_SummaryConsistency ==
    Searched =>
        LET summary == search_results.summary
        IN  /\ summary.total_matches =
                  summary.total_matched_announcements + summary.total_matched_full_content
            /\ summary.total_matches = MatchedCount(search_results)

\* an item whose url is empty or missing
NoUrl(item) == ~Truthy(ItemUrl(item))

\* the master file holds, for source s, an announcement without a url
StoredWithoutUrl(s) ==
    /\ masterFile.state = "valid"
    /\ s \in DOMAIN masterFile.data.results_by_scraper
    /\ \E i \in DOMAIN masterFile.data.results_by_scraper[s].announcements :
           ~Truthy(masterFile.data.results_by_scraper[s].announcements[i].url)

\* add_announcement on an item without a url that passes the filter:
\* accepted, one more announcement, new_urls and skipped_duplicates as
\* they were
NoUrlStep ==
    ( /\ pc = "adding"
      /\ pending # << >>
      /\ pending' = Tail(pending)
      /\ NoUrl(Head(pending))
      /\ ~should_filter(result.content_filter, Head(pending))[1] )
        => /\ last_add'.branch = "accepted"
           /\ last_add'.ret
           /\ Len(result'.announcements) = Len(result.announcements) + 1
           /\ result'.new_urls = result.new_urls
           /\ result'.skipped_duplicates = result.skipped_duplicates

\* the empty url is in no url set: not in new_urls, not in the
\* existing_urls the run was given, not in what get_existing_urls returns
\* for any source of the master file
NoEmptyUrlKept ==
    /\ result # NoResult =>
           /\ << >> \notin result.new_urls
           /\ << >> \notin result.existing_urls
    /\ \A s \in Scrapers : << >> \notin get_existing_urls(masterFile, s, clock).urls

\* C30: an item with an empty or missing url that passes the filter is
\* always accepted by add_announcement whatever existing_urls holds, is
\* never added to new_urls, and puts no url in the set get_existing_urls
\* returns on later runs, so a later run accepts it again.
C30_NoUrlBypassesDedup == [][NoUrlStep /\ NoEmptyUrlKept']_vars

\* an item without a url has just been accepted by a run of a source for
\* which the master file already stores an announcement without a url
C30_Witness ==
    /\ pc = "adding"
    /\ last_add.branch = "accepted"
    /\ NoUrl(last_add.item)
    /\ result.existing_urls # {}
    /\ StoredWithoutUrl(Head(todo))

====
